---- MODULE Spec2Model ----
(***************************************************************************)
(* Model of the landscape-image pipeline of posters.py                     *)
(* (fetch_best_landscape_any and the helpers it calls) and of infer_ext,   *)
(* which posters.py and download-images/script.py share verbatim           *)
(* (Spec, SpecExt); of score_landscape on its own (SpecScore); and of      *)
(* main of both programs, with the poster and landscape fetchers each      *)
(* one calls and the KeyboardInterrupt handlers around them (SpecMain).    *)
(*                                                                         *)
(* Strings are sequences of one-character strings.  URLs are natural       *)
(* numbers (two equal URLs are the same candidate); UrlStr gives the text  *)
(* of a URL where the code looks at it.  Scores are Python floats, that    *)
(* is IEEE-754 doubles, computed bit for bit as the interpreter computes   *)
(* them, so that every comparison of two scores falls as it does in the    *)
(* code.                                                                   *)
(***************************************************************************)
EXTENDS Integers, Sequences, FiniteSets, TLC

\* ------------------------------------------------------------- strings --

LowerTable ==
  "A" :> "a" @@ "B" :> "b" @@ "C" :> "c" @@ "D" :> "d" @@ "E" :> "e" @@
  "F" :> "f" @@ "G" :> "g" @@ "H" :> "h" @@ "I" :> "i" @@ "J" :> "j" @@
  "K" :> "k" @@ "L" :> "l" @@ "M" :> "m" @@ "N" :> "n" @@ "O" :> "o" @@
  "P" :> "p" @@ "Q" :> "q" @@ "R" :> "r" @@ "S" :> "s" @@ "T" :> "t" @@
  "U" :> "u" @@ "V" :> "v" @@ "W" :> "w" @@ "X" :> "x" @@ "Y" :> "y" @@
  "Z" :> "z"

\* str.lower() on one character
LowerChar(c) == IF c \in DOMAIN LowerTable THEN LowerTable[c] ELSE c

\* str.lower()
Lower(s) == [k \in 1..Len(s) |-> LowerChar(s[k])]

\* Python's  sub in s
Contains(s, sub) ==
  \E k \in 1..(Len(s) - Len(sub) + 1) : SubSeq(s, k, k + Len(sub) - 1) = sub

S_png  == <<"p","n","g">>
S_webp == <<"w","e","b","p">>
S_jpeg == <<"j","p","e","g">>
S_jpg  == <<"j","p","g">>
S_gif  == <<"g","i","f">>

EXT_JPG  == <<".">> \o S_jpg
EXT_PNG  == <<".">> \o S_png
EXT_WEBP == <<".">> \o S_webp
EXT_JPEG == <<".">> \o S_jpeg

\* the alternation (jpe?g|png|webp) of the URL pattern, in matching order
ExtAlternatives == <<S_jpeg, S_jpg, S_png, S_webp>>

\* the pattern \.(jpe?g|png|webp)(?:\?|$) with re.I matches token number a
\* at position k of url: a dot, the token in any case, then "?" or the end
\* of the string ($ also matches before a final newline)
MatchAt(url, k, a) ==
  LET tok == ExtAlternatives[a]
      e   == k + Len(tok)
  IN  /\ k >= 1
      /\ e <= Len(url)
      /\ url[k] = "."
      /\ Lower(SubSeq(url, k + 1, e)) = tok
      /\ \/ e = Len(url)
         \/ url[e + 1] = "?"
         \/ (e + 1 = Len(url) /\ url[e + 1] = "\n")

MatchPositions(url) ==
  {k \in 1..Len(url) : \E a \in 1..Len(ExtAlternatives) : MatchAt(url, k, a)}

\* re.search: the leftmost match; group(1).lower() is the token matched there
SearchExtToken(url) ==
  LET k == CHOOSE p \in MatchPositions(url) :
             \A q \in MatchPositions(url) : p <= q
      a == CHOOSE b \in 1..Len(ExtAlternatives) : MatchAt(url, k, b)
  IN  ExtAlternatives[a]

\* the content-type branch of infer_ext; <<>> when it decides nothing
CtExt(content_type) ==
  LET ct == Lower(content_type)
  IN  IF content_type = <<>> THEN <<>>
      ELSE IF Contains(ct, S_png) THEN EXT_PNG
      ELSE IF Contains(ct, S_webp) THEN EXT_WEBP
      ELSE IF Contains(ct, S_jpeg) \/ Contains(ct, S_jpg) THEN EXT_JPG
      ELSE <<>>

\* the URL branch of infer_ext
UrlExt(url) ==
  IF MatchPositions(url) # {} THEN <<".">> \o SearchExtToken(url) ELSE EXT_JPG

infer_ext_UrlFirst(url, content_type) ==
  IF MatchPositions(url) # {} THEN UrlExt(url)
  ELSE IF CtExt(content_type) # <<>> THEN CtExt(content_type)
  ELSE EXT_JPG

infer_ext(url, content_type) ==
  LET e == CtExt(content_type)
  IN  IF e # <<>> THEN e ELSE UrlExt(url)


\* ------------------------------------------------------------- numbers --

MIN_LANDSCAPE_WIDTH == 1280

\* the width that score_landscape uses as the floor of both size terms
SCORE_WIDTH_FLOOR == 1920

\* de = 50.0 when the colour computation raises
COLOR_FAIL_DE == 50

\* valid_candidates >= 2
MIN_VALID == 2

\* checked >= 100
HARD_CAP == 100

Max(a, b) == IF a >= b THEN a ELSE b

Min(a, b) == IF a <= b THEN a ELSE b

Pow2(n) == 2 ^ n

RECURSIVE FloorLog2(_)
FloorLog2(w) == IF w < 2 THEN 0 ELSE 1 + FloorLog2(w \div 2)

\* ---------------------------------------------------- natural numbers --

\* A natural number of any size is the sequence of its digits in base LIMB,
\* least significant first, without leading zeros; <<>> is 0.  A loop
\* carries its state in a record whose counter is tested at every turn.
LIMB_BITS == 13

LIMB == Pow2(LIMB_BITS)

Digit(a, k) == IF k <= Len(a) THEN a[k] ELSE 0

BigTrim(a) ==
  LET nz == {k \in 1..Len(a) : a[k] # 0}
  IN  IF nz = {} THEN <<>>
      ELSE SubSeq(a, 1, CHOOSE k \in nz : \A j \in nz : j <= k)

RECURSIVE BigOfNat(_)
BigOfNat(n) == IF n = 0 THEN <<>> ELSE <<n % LIMB>> \o BigOfNat(n \div LIMB)

RECURSIVE AddFrom(_, _, _, _)
AddFrom(a, b, k, carry) ==
  IF k > Len(a) /\ k > Len(b) THEN BigOfNat(carry)
  ELSE LET s == Digit(a, k) + Digit(b, k) + carry
       IN  <<s % LIMB>> \o AddFrom(a, b, k + 1, s \div LIMB)

BigAdd(a, b) == AddFrom(a, b, 1, 0)

RECURSIVE SubFrom(_, _, _, _)
SubFrom(a, b, k, borrow) ==
  IF k > Len(a) THEN <<>>
  ELSE LET d == a[k] - Digit(b, k) - borrow
       IN  <<(d + LIMB) % LIMB>> \o SubFrom(a, b, k + 1, IF d < 0 THEN 1 ELSE 0)

\* a - b, for a >= b
BigSub(a, b) == BigTrim(SubFrom(a, b, 1, 0))

\* -1, 0 or 1 as a is less than, equal to or greater than b
BigCmp(a, b) ==
  IF Len(a) # Len(b) THEN (IF Len(a) < Len(b) THEN 0 - 1 ELSE 1)
  ELSE LET df == {k \in 1..Len(a) : a[k] # b[k]}
       IN  IF df = {} THEN 0
           ELSE LET k == CHOOSE x \in df : \A j \in df : j <= x
                IN  IF a[k] < b[k] THEN 0 - 1 ELSE 1

RECURSIVE MulFrom(_, _, _, _)
MulFrom(a, m, k, carry) ==
  IF k > Len(a) THEN BigOfNat(carry)
  ELSE LET p == a[k] * m + carry
       IN  <<p % LIMB>> \o MulFrom(a, m, k + 1, p \div LIMB)

\* a * m, for 0 <= m < 2^18
BigMulSmall(a, m) == IF m = 0 THEN <<>> ELSE MulFrom(a, m, 1, 0)

\* the quotient without leading zeros, and the remainder
DivResult(x) == [q |-> BigTrim(x.q), r |-> x.r]

RECURSIVE DivSmallFrom(_, _, _)
DivSmallFrom(st, a, d) ==
  IF st.k = 0 THEN st
  ELSE LET cur == st.r * LIMB + a[st.k]
       IN  DivSmallFrom([k |-> st.k - 1, q |-> <<cur \div d>> \o st.q,
                         r |-> cur % d], a, d)

\* quotient and remainder of a by d, for 0 < d < 2^18
BigDivSmall(a, d) ==
  DivResult(DivSmallFrom([k |-> Len(a), q |-> <<>>, r |-> 0], a, d))

\* a * 2^n
BigShl(a, n) ==
  IF a = <<>> THEN <<>>
  ELSE BigMulSmall([k \in 1..(n \div LIMB_BITS) |-> 0] \o a,
                   Pow2(n % LIMB_BITS))

\* a \div 2^n
BigShr(a, n) ==
  IF n \div LIMB_BITS >= Len(a) THEN <<>>
  ELSE BigDivSmall(SubSeq(a, n \div LIMB_BITS + 1, Len(a)),
                   Pow2(n % LIMB_BITS)).q

\* the number of binary digits of a
BigBitLen(a) ==
  IF a = <<>> THEN 0
  ELSE LIMB_BITS * (Len(a) - 1) + FloorLog2(a[Len(a)]) + 1

\* a * LIMB
ShiftLimb(a) == IF a = <<>> THEN <<>> ELSE <<0>> \o a

RECURSIVE BigMul(_, _)
BigMul(a, b) ==
  IF a = <<>> \/ b = <<>> THEN <<>>
  ELSE BigAdd(BigMulSmall(a, Head(b)), ShiftLimb(BigMul(a, Tail(b))))

\* long division by b, one binary digit at a time: the remainder so far,
\* doubled and with the next digit of the dividend brought down, is r2
DivBitNext(st, r2, b) ==
  IF BigCmp(r2, b) >= 0
  THEN [j |-> st.j - 1, q |-> 2 * st.q + 1, r |-> BigSub(r2, b)]
  ELSE [j |-> st.j - 1, q |-> 2 * st.q, r |-> r2]

\* the binary digits j, j-1, ..., 0 of the digit d of the dividend
RECURSIVE DivBits(_, _, _)
DivBits(st, d, b) ==
  IF st.j < 0 THEN st
  ELSE DivBits(DivBitNext(st,
                          BigAdd(BigMulSmall(st.r, 2),
                                 BigOfNat((d \div Pow2(st.j)) % 2)),
                          b),
               d, b)

DivLimbNext(st, s) == [k |-> st.k - 1, q |-> <<s.q>> \o st.q, r |-> s.r]

RECURSIVE DivFrom(_, _, _)
DivFrom(st, a, b) ==
  IF st.k = 0 THEN st
  ELSE DivFrom(DivLimbNext(st, DivBits([j |-> LIMB_BITS - 1, q |-> 0,
                                        r |-> st.r], a[st.k], b)),
               a, b)

\* quotient and remainder of a by b, for b > 0
BigDivMod(a, b) ==
  DivResult(DivFrom([k |-> Len(a), q |-> <<>>, r |-> <<>>], a, b))

\* -------------------------------------------------------------- floats --

\* A Python float is an IEEE-754 double: [neg, m, e] is the number
\* (-1)^neg * m * 2^e with m a natural number of exactly MANT_BITS binary
\* digits, and FZero is 0.0.  Every operation gives the exact result rounded
\* to the nearest double, ties to the even mantissa, as the hardware does.
\* The scores of this program are far from the subnormal numbers and from
\* overflow, which are left out.
MANT_BITS == 53

\* binary digits a quotient is computed to before it is rounded
DIV_EXTRA_BITS == MANT_BITS + 3

FZero == [neg |-> FALSE, m |-> <<>>, e |-> 0]

\* q * 2^e with q of MANT_BITS digits, or of one more after a carry
FCarry(neg, q, e) ==
  IF BigBitLen(q) > MANT_BITS
  THEN [neg |-> neg, m |-> BigShr(q, 1), e |-> e + 1]
  ELSE [neg |-> neg, m |-> q, e |-> e]

\* q goes up when the part cut off is more than half a unit (c > 0), or is
\* half a unit and q is odd
FRoundUp(neg, q, e, c, sticky) ==
  FCarry(neg,
         IF c > 0 \/ (c = 0 /\ (sticky \/ q[1] % 2 = 1))
         THEN BigAdd(q, <<1>>) ELSE q,
         e)

\* m cut by sh binary digits: q is what is left
FRoundCut(neg, m, e, sticky, sh, q) ==
  FRoundUp(neg, q, e + sh,
           BigCmp(BigSub(m, BigShl(q, sh)), BigShl(<<1>>, sh - 1)), sticky)

\* m has bl binary digits
FRoundLen(neg, m, e, sticky, bl) ==
  IF bl = 0 THEN FZero
  ELSE IF bl <= MANT_BITS
    THEN [neg |-> neg, m |-> BigShl(m, MANT_BITS - bl),
          e |-> e - (MANT_BITS - bl)]
  ELSE FRoundCut(neg, m, e, sticky, bl - MANT_BITS,
                 BigShr(m, bl - MANT_BITS))

\* the double nearest to (-1)^neg * (m + f) * 2^e, where 0 <= f < 1 and
\* sticky tells whether f > 0
FRound(neg, m, e, sticky) == FRoundLen(neg, m, e, sticky, BigBitLen(m))

\* float(n), and an int operand of a float operation: exact
FOfInt(n) ==
  IF n = 0 THEN FZero
  ELSE [neg |-> n < 0,
        m   |-> BigShl(BigOfNat(IF n < 0 THEN 0 - n ELSE n),
                       MANT_BITS - 1 - FloorLog2(IF n < 0 THEN 0 - n ELSE n)),
        e   |-> FloorLog2(IF n < 0 THEN 0 - n ELSE n) + 1 - MANT_BITS]

FNeg(x) == IF x.m = <<>> THEN x ELSE [x EXCEPT !.neg = ~x.neg]

\* abs(x)
FAbs(x) == [x EXCEPT !.neg = FALSE]

\* the sum of (-1)^xn * mx * 2^e and (-1)^yn * my * 2^e, where c compares
\* mx with my
FAddAligned(xn, mx, yn, my, e, c) ==
  FRound(IF c >= 0 THEN xn ELSE yn,
         IF xn = yn THEN BigAdd(mx, my)
         ELSE IF c >= 0 THEN BigSub(mx, my)
         ELSE BigSub(my, mx),
         e, FALSE)

FAddAt(x, y, e) ==
  FAddAligned(x.neg, BigShl(x.m, x.e - e), y.neg, BigShl(y.m, y.e - e), e,
              BigCmp(BigShl(x.m, x.e - e), BigShl(y.m, y.e - e)))

\* x + y
FAdd(x, y) ==
  IF x.m = <<>> THEN y
  ELSE IF y.m = <<>> THEN x
  ELSE FAddAt(x, y, Min(x.e, y.e))

\* x - y
FSub(x, y) == FAdd(x, FNeg(y))

\* x * y
FMul(x, y) ==
  IF x.m = <<>> \/ y.m = <<>> THEN FZero
  ELSE FRound(x.neg # y.neg, BigMul(x.m, y.m), x.e + y.e, FALSE)

FDivRound(neg, d, e) == FRound(neg, d.q, e, d.r # <<>>)

\* x / y; a division by zero raises ZeroDivisionError and has no value
FDiv(x, y) ==
  IF x.m = <<>> \/ y.m = <<>>
  THEN (IF y.m = <<>> THEN CHOOSE z \in {} : TRUE ELSE FZero)
  ELSE FDivRound(x.neg # y.neg,
                 BigDivMod(BigShl(x.m, DIV_EXTRA_BITS), y.m),
                 x.e - DIV_EXTRA_BITS - y.e)

\* x < y
FLess(x, y) ==
  IF x.m = <<>> THEN y.m # <<>> /\ ~y.neg
  ELSE IF y.m = <<>> THEN x.neg
  ELSE IF x.neg # y.neg THEN x.neg
  ELSE IF x.e # y.e THEN (x.e < y.e) # x.neg
  ELSE IF x.neg THEN BigCmp(x.m, y.m) > 0
  ELSE BigCmp(x.m, y.m) < 0

\* ---------------------------------------------------------- logarithm --

\* binary digits after the point of the fixed-point logarithm
LOG_FRAC_BITS == 104

\* a * p \div q
MulDiv(a, p, q) == BigDivSmall(BigMulSmall(a, p), q).q

\* one term of the series atanh(x) = x + x^3/3 + x^5/5 + ... for x = p/q:
\* t is x^(2k+1) * 2^LOG_FRAC_BITS, every quotient cut
AtanhStep(s, p, q) ==
  [t   |-> MulDiv(MulDiv(s.t, p, q), p, q),
   sum |-> BigAdd(s.sum, BigDivSmall(s.t, 2 * s.k + 1).q),
   k   |-> s.k + 1]

RECURSIVE AtanhSum(_, _, _)
AtanhSum(s, p, q) ==
  IF s.t = <<>> THEN s.sum ELSE AtanhSum(AtanhStep(s, p, q), p, q)

\* atanh(p / q) * 2^LOG_FRAC_BITS, for 0 <= 3 * p <= q < 2^18
AtanhFixed(p, q) ==
  AtanhSum([t   |-> BigDivSmall(BigShl(BigOfNat(p), LOG_FRAC_BITS), q).q,
            sum |-> <<>>, k |-> 0], p, q)

\* ln 2 = 2 * atanh(1/3)
Ln2Fixed == BigMulSmall(AtanhFixed(1, 3), 2)

\* ln w * 2^LOG_FRAC_BITS, from  w = 2^n * y,  ln y = 2 * atanh((y-1)/(y+1))
\* with n = FloorLog2(w)
LnFixedAt(w, n) ==
  BigAdd(BigMulSmall(Ln2Fixed, n),
         BigMulSmall(AtanhFixed(w - Pow2(n), w + Pow2(n)), 2))

LnFixed(w) == LnFixedAt(w, FloorLog2(w))

\* the double after x, for x > 0
FNextUp(x) == FCarry(x.neg, BigAdd(x.m, <<1>>), x.e)

\* the integers below 2^17 at which log of the C library (glibc 2.36,
\* x86-64) is not the double nearest to the logarithm but the next one up
LIBM_LOG_ABOVE == {9170}

LibmRound(w, x) == IF w \in LIBM_LOG_ABOVE THEN FNextUp(x) ELSE x

\* log(x) of the C library on the double of the integer w, 1 <= w < 2^17
libm_log(w) ==
  LibmRound(w, FRound(FALSE, LnFixed(w), 0 - LOG_FRAC_BITS, TRUE))

\* math.log(w, base): the quotient of the two logarithms
math_log(w, base) == FDiv(libm_log(w), libm_log(base))

\* ------------------------------------------------------------- scoring --

\* TARGET_AR = 16/9
TARGET_AR == FDiv(FOfInt(16), FOfInt(9))

\* the literal 0.3 of  best[0] < 0.3: the double nearest to 3/10
GOOD_ENOUGH == FDiv(FOfInt(3), FOfInt(10))

\* de / 80.0, where de is the colour distance of the candidate to the
\* poster, or the penalty when avg_color_lab / delta_e_cie76 raise
ColorTerm_IgnoresFailure(img) == FDiv(FOfInt(img.de), FOfInt(80))

ColorTerm(img) ==
  LET de == IF img.color_ok THEN img.de ELSE COLOR_FAIL_DE
  IN  FDiv(FOfInt(de), FOfInt(80))

\* ar_pen = abs(w / h - TARGET_AR) * 0.5
AspectPenalty(w, h) ==
  FMul(FAbs(FSub(FDiv(FOfInt(w), FOfInt(h)), TARGET_AR)),
       FDiv(FOfInt(1), FOfInt(2)))

\* size_bonus = math.log(max(w, 1920), 2) / 15.0
SizeBonus(w) == FDiv(math_log(Max(w, SCORE_WIDTH_FLOOR), 2), FOfInt(15))

\* max(0, x)
FMax0(x) == IF FLess(FZero, x) THEN x ELSE FZero

\* width_bonus = max(0, (w - 1920) / 10000.0)
WidthBonus(w) == FMax0(FDiv(FOfInt(w - SCORE_WIDTH_FLOOR), FOfInt(10000)))

\* score = (de / 80.0) + ar_pen - size_bonus - width_bonus; lower is better
score_landscape(img, w, h) ==
  FSub(FSub(FAdd(ColorTerm(img), AspectPenalty(w, h)), SizeBonus(w)),
       WidthBonus(w))


\* --------------------------------------------------- the outside world --

None == <<>>

S_image == <<"i","m","a","g","e","/">>

CT_JPEG == S_image \o S_jpeg
CT_PNG  == S_image \o S_png
CT_WEBP == S_image \o S_webp
CT_HTML == <<"t","e","x","t","/","h","t","m","l">>

\* What fetch_image_and_dims gives for a URL: it raises (ok = FALSE), or it
\* returns the bytes, the size and the Content-Type header.  color_ok and de
\* say what avg_color_lab and delta_e_cie76 compute from these bytes against
\* the poster colour.  Image bytes are a one-element sequence.
ProbeFailure ==
  [ok |-> FALSE, data |-> None, w |-> 0, h |-> 1, ct |-> <<>>,
   color_ok |-> FALSE, de |-> 0]

Image(d, w, h, ct, cok, de) ==
  [ok |-> TRUE, data |-> <<d>>, w |-> w, h |-> h, ct |-> ct,
   color_ok |-> cok, de |-> de]

\* one pixel narrower than the floor, perfect colour
ImgNarrow == Image(1, 1279, 719, CT_JPEG, TRUE, 0)
\* wide enough, ratio just under 1.2, perfect colour
ImgSquare == Image(2, 2398, 2000, CT_PNG, TRUE, 0)
\* full HD, close in colour: scores below the threshold
ImgA == Image(3, 1920, 1080, CT_JPEG, TRUE, 20)
\* ratio exactly 1.2, colour computation raises: below the threshold too
ImgE == Image(4, 1536, 1280, <<>>, FALSE, 0)
\* exactly as wide as the floor, far in colour: two different images with
\* the same score above the threshold, and a third that scores higher
ImgM == Image(5, 1280, 720, CT_WEBP, TRUE, 90)
ImgM2 == Image(6, 1280, 720, CT_HTML, TRUE, 90)
ImgM3 == Image(7, 1280, 720, CT_PNG, TRUE, 100)

Responses ==
  {ProbeFailure, ImgNarrow, ImgSquare, ImgA, ImgE, ImgM, ImgM2, ImgM3}

\* number of URLs whose response is chosen freely at each probe; every
\* other URL answers with the response `bulk` of the run
NFree == 2

\* the three direct wallpaper URLs that try_movie_databases always appends
DirectUrls == <<1, 2, 3>>

FreeUrls == 4..(3 + NFree)

FirstBulkUrl == 4 + NFree

\* n consecutive URLs starting at a
UrlRange(a, n) == [k \in 1..n |-> a + k - 1]

S_base == <<"h","/","a">>

\* the text of a URL, as far as infer_ext looks at it
UrlStr(u) ==
  IF u \in 1..3 THEN S_base \o EXT_JPG
  ELSE IF u % 4 = 0 THEN S_base \o EXT_PNG
  ELSE IF u % 4 = 1 THEN S_base \o EXT_JPEG
  ELSE IF u % 4 = 2 THEN S_base
  ELSE S_base \o EXT_WEBP \o <<"?","x">>

\* ------------------------------------------------------------ adapters --

\* The title the user typed.  SURROGATE stands for a lone surrogate
\* character, which input() gives for a byte of stdin that is not valid in
\* the locale's encoding.
SURROGATE == "udcff"

PlainTitle == <<"F">>

SurrogateTitle == <<"F", SURROGATE>>

\* What one HTTP request of an adapter yields: the URLs it appended to its
\* list before it finished or raised, and whether it raised.
Outcome(urls, fail) == [urls |-> urls, fail |-> fail]

\* a call returns a value or raises
Returned(v) == [raised |-> FALSE, value |-> v]

Raised == [raised |-> TRUE, value |-> <<>>]

\* urllib.parse.quote(s): UnicodeEncodeError on a lone surrogate
quote(s) ==
  IF \E k \in 1..Len(s) : s[k] = SURROGATE THEN Raised ELSE Returned(s)

\* What the requests of an adapter can yield for title t, of the outcomes in
\* all: when the adapter builds its URL inside the try and the title cannot
\* be quoted, no request is made and each try ends in its except.
RequestsFor(t, all, failing) == IF quote(t).raised THEN {failing} ELSE all

\* try: ... except Exception: around the TMDB requests, then the three
\* direct URLs are appended outside the try
try_movie_databases(tmdb) == Returned(tmdb.urls \o DirectUrls)

\* two try blocks, Unsplash then Pixabay, appending to the same list
try_free_image_apis(unsplash, pixabay) ==
  Returned(unsplash.urls \o pixabay.urls)

\* The elements of s at their first occurrence, in order.  This is the loop
\*   for u in s: if u not in seen: seen.add(u); out.append(u)
\* u is not in seen at position k exactly when it does not occur before k.
FirstOccurrences(s) ==
  LET keep == SelectSeq([k \in 1..Len(s) |-> k],
                        LAMBDA k : \A j \in 1..(k - 1) : s[j] # s[k])
  IN  [n \in 1..Len(keep) |-> s[keep[n]]]

\* for m in matches: if m not in urls: urls.append(m)
AppendNew(urls, found) ==
  urls \o FirstOccurrences(
            SelectSeq(found, LAMBDA m : \A k \in 1..Len(urls) : urls[k] # m))

\* the query loop of the three search-engine adapters: a failed request is
\* skipped, the loop stops once max_results URLs are collected
RECURSIVE SearchLoop(_, _, _, _)
SearchLoop(requests, k, urls, max_results) ==
  IF k > Len(requests) THEN urls
  ELSE LET got == IF requests[k].fail THEN urls
                  ELSE AppendNew(urls, requests[k].urls)
       IN  IF Len(got) >= max_results THEN got
           ELSE SearchLoop(requests, k + 1, got, max_results)

Take(urls, n) == SubSeq(urls, 1, Min(Len(urls), n))

\* google_image_search_any builds its search URLs with
\* urllib.parse.quote(query) in the loop over the queries, before the try
\* around the request: an exception of quote leaves the adapter
google_image_search_any(t, requests, max_results) ==
  IF quote(t).raised THEN Raised
  ELSE Returned(Take(SearchLoop(requests, 1, <<>>, max_results), max_results))

ddg_image_search_any(requests, max_results) ==
  Returned(Take(SearchLoop(requests, 1, <<>>, max_results), max_results))

bing_image_search_any(requests, max_results) ==
  Returned(Take(SearchLoop(requests, 1, <<>>, max_results), max_results))

\* Deduplicate while preserving order
Deduplicate_KeepLast(probe_list) ==
  LET keep == SelectSeq([k \in 1..Len(probe_list) |-> k],
                        LAMBDA k : \A j \in (k + 1)..Len(probe_list) :
                                     probe_list[j] # probe_list[k])
  IN  [n \in 1..Len(keep) |-> probe_list[keep[n]]]

Deduplicate(probe_list) == FirstOccurrences(probe_list)

\* -------------------------------------------------------------- inputs --

\* if len(probe) < 10 / 20 / 30 / 40
FREE_API_LIMIT == 10
GOOGLE_LIMIT == 20
DDG_LIMIT == 30
BING_LIMIT == 40

\* google_image_search_any(title, 30), ddg_...(title, 20), bing_...(title, 20)
GOOGLE_MAX == 30
DDG_MAX == 20
BING_MAX == 20

\* 9 queries x 2 search URLs, 5 queries, 4 queries
GOOGLE_REQUESTS == 18
DDG_REQUESTS == 5
BING_REQUESTS == 4

FreeSeq == UrlRange(4, NFree)

FreeRev == [k \in 1..NFree |-> 4 + NFree - k]

BulkSeq(n) == UrlRange(FirstBulkUrl, n)

AllFail(n) == [k \in 1..n |-> Outcome(<<>>, TRUE)]

AllOk(n, urls) == [k \in 1..n |-> Outcome(urls, FALSE)]

FirstOnly(n, urls) ==
  [k \in 1..n |-> IF k = 1 THEN Outcome(urls, FALSE) ELSE Outcome(<<>>, TRUE)]

LastOnly(n, urls) ==
  [k \in 1..n |-> IF k = n THEN Outcome(urls, FALSE) ELSE Outcome(<<>>, FALSE)]

\* backdrops TMDB can answer with: none (with and without a failure), a few,
\* a few before a failure, a repeated one, and lists that reach each limit
TmdbOutcomes ==
  {Outcome(<<>>, TRUE), Outcome(<<>>, FALSE), Outcome(<<4>>, TRUE),
   Outcome(FreeRev, FALSE), Outcome(<<4, 4>> \o BulkSeq(5), FALSE)}
  \cup {Outcome(BulkSeq(n - 3), FALSE) :
          n \in {FREE_API_LIMIT, GOOGLE_LIMIT, DDG_LIMIT, BING_LIMIT}}
  \cup {Outcome(BulkSeq(HARD_CAP), FALSE),
        Outcome(BulkSeq(HARD_CAP) \o <<4>>, FALSE)}

UnsplashOutcomes ==
  {Outcome(<<>>, TRUE), Outcome(<<4>>, FALSE), Outcome(FreeRev, TRUE)}

PixabayOutcomes == {Outcome(<<>>, TRUE), Outcome(<<5>>, FALSE)}

GoogleOutcomes ==
  {AllFail(GOOGLE_REQUESTS), FirstOnly(GOOGLE_REQUESTS, FreeRev),
   AllOk(GOOGLE_REQUESTS, <<4>>)}

DdgOutcomes == {AllFail(DDG_REQUESTS), LastOnly(DDG_REQUESTS, <<4>>)}

BingOutcomes ==
  {AllFail(BING_REQUESTS), AllOk(BING_REQUESTS, FreeSeq),
   FirstOnly(BING_REQUESTS, <<5>>)}

AnyFail(requests) == \E k \in 1..Len(requests) : requests[k].fail

\* ------------------------------------------------------------ the scan --

min_width == MIN_LANDSCAPE_WIDTH

\* ar < 1.2, with ar = w / h: for an image (w and h below 2^31) the float
\* quotient is under the float 1.2 exactly when w / h is under 6/5
TooSquare(w, h) == 5 * w < 6 * h

\* except Exception: ... continue
OnFetchError_Abort(st) == [st EXCEPT !.ctl = "break_cap"]

OnFetchError(st) == [st EXCEPT !.ctl = "continue"]

\* the two filters: if w < min_width: continue; if ar < 1.2: continue
Rejected_NoWidthFloor(r) == TooSquare(r.w, r.h)

Rejected(r) == r.w < min_width \/ TooSquare(r.w, r.h)

\* if best is None or score < best[0]: best = (score, data, infer_ext(url, ct))
UpdateBest_Latest(b, score, url, r) ==
  <<score, r.data, infer_ext(UrlStr(url), r.ct)>>

UpdateBest_OrEqual(b, score, url, r) ==
  IF b = None \/ ~FLess(b[1], score)
  THEN <<score, r.data, infer_ext(UrlStr(url), r.ct)>>
  ELSE b

UpdateBest(b, score, url, r) ==
  IF b = None \/ FLess(score, b[1])
  THEN <<score, r.data, infer_ext(UrlStr(url), r.ct)>>
  ELSE b

\* the two breaks at the end of an iteration that passed the filters
LoopControl_SingleIsEnough(b, v, c) ==
  IF b # None /\ FLess(b[1], GOOD_ENOUGH) THEN "break_early"
  ELSE IF c >= HARD_CAP THEN "break_cap"
  ELSE "next"

LoopControl_NoEarlyExit(b, v, c) ==
  IF c >= HARD_CAP THEN "break_cap" ELSE "next"

LoopControl(b, v, c) ==
  IF b # None /\ FLess(b[1], GOOD_ENOUGH) /\ v >= MIN_VALID
  THEN "break_early"
  ELSE IF c >= HARD_CAP THEN "break_cap"
  ELSE "next"

\* score_landscape of the responses of the model's network, computed once
ScoreTable ==
  [r \in Responses |-> score_landscape(r, r.w, r.h)] @@ <<>>

\* t[x] where the table t has it, v elsewhere
TableOr(t, x, v) == IF x \in DOMAIN t THEN t[x] ELSE v

\* score = score_landscape(data, w, h, poster_lab), looked up for a response
\* of the table
ScoreOf(r) == TableOr(ScoreTable, r, score_landscape(r, r.w, r.h))

\* One iteration of  for i, url in enumerate(ordered)  on the response r of
\* fetch_image_and_dims(url).  st holds best, checked and valid_candidates;
\* ctl tells how the iteration ends.
ScanAccepted(b, v, c) ==
  [best |-> b, checked |-> c, valid_candidates |-> v,
   ctl |-> LoopControl(b, v, c)]

ScanBody(st, url, r) ==
  IF ~r.ok THEN OnFetchError(st)
  ELSE IF Rejected(r)
    THEN [st EXCEPT !.checked = st.checked + 1, !.ctl = "continue"]
  ELSE ScanAccepted(UpdateBest(st.best, ScoreOf(r), url, r),
                    st.valid_candidates + 1, st.checked + 1)

\* best = None; checked = 0; valid_candidates = 0
ScanStart == [best |-> None, checked |-> 0, valid_candidates |-> 0,
              ctl |-> "next"]

\* if best: return best[1], best[2]   else   return None, None
ReturnValue(b) == IF b # None THEN <<b[2], b[3]>> ELSE <<None, None>>

Breaks == {"break_early", "break_cap"}

\* The loop as a function of the list of URLs and of their responses: the
\* local state after the last iteration it runs, and the number of
\* iterations.  The list is folded by halves.
RECURSIVE ScanFold(_, _, _, _, _)
ScanFold(urls, resps, lo, hi, acc) ==
  IF lo > hi \/ acc.st.ctl \in Breaks THEN acc
  ELSE IF lo = hi
    THEN [st |-> ScanBody(acc.st, urls[lo], resps[lo]), used |-> acc.used + 1]
  ELSE LET mid == (lo + hi) \div 2
       IN  ScanFold(urls, resps, mid + 1, hi,
                    ScanFold(urls, resps, lo, mid, acc))

scan_loop(urls, resps) ==
  ScanFold(urls, resps, 1, Len(urls), [st |-> ScanStart, used |-> 0])


\* --------------------------------------------------------------- state --

VARIABLES
  pc,                \* position in fetch_best_landscape_any / infer_ext call
  probe,             \* probe: the URLs of the adapters, concatenated
  ordered,           \* ordered: probe without repetitions
  i,                 \* index of the loop over ordered (from 0)
  best,              \* None or <<score, data, ext>>
  checked,           \* images fetched and decoded
  valid_candidates,  \* images that passed both filters
  result,            \* the returned pair, None before the return
  bulk,              \* the response of every URL that is not in FreeUrls
  probes,            \* calls of fetch_image_and_dims made by the loop
  examined,          \* the responses of these calls, in order
  queried,           \* the adapters called, in order, with the number of
                     \* URLs each returned
  faulty,            \* the adapters in which a request raised
  title,             \* the film title, <<>> before it is read
  stop,              \* how the loop ended
  ext_url,           \* arguments and result of a call of infer_ext
  ext_ct,
  ext_out,
  score_in,          \* arguments and result of a call of score_landscape
  score_out,
  script,            \* the program that runs main: "posters" or "script"
  mpc,               \* position in main
  user,              \* what the user typed at the prompts
  net,               \* what the network answered to main's fetches
  poster_ret,        \* value of fetch_poster_imdb
  land_ret,          \* the landscape image main holds to save, and the
                     \* list that was probed for it
  files,             \* the two output files on disk
  exit_status,       \* exit status of the process, None while it runs
  printed,           \* the messages of main that tell how it ended
  called             \* the fetch functions main has called, in order

vars == <<pc, probe, ordered, i, best, checked, valid_candidates, result,
          bulk, probes, examined, queried, faulty, title, stop,
          ext_url, ext_ct, ext_out, score_in, score_out,
          script, mpc, user, net, poster_ret, land_ret, files, exit_status,
          printed, called>>

scanVars == <<i, best, checked, valid_candidates, probes, examined, stop>>

extVars == <<ext_url, ext_ct, ext_out>>

scoreVars == <<score_in, score_out>>

mainVars == <<script, mpc, user, net, poster_ret, land_ret, files,
              exit_status, printed, called>>

\* no call of score_landscape on its own
ScoreIdle ==
  /\ score_in = <<>>
  /\ score_out = <<>>

\* no run of main
MainIdle ==
  /\ script = "none"
  /\ mpc = "idle"
  /\ user = <<>>
  /\ net = <<>>
  /\ poster_ret = <<>>
  /\ land_ret = <<>>
  /\ files = <<>>
  /\ exit_status = <<>>
  /\ printed = {}
  /\ called = <<>>

\* no call of infer_ext on its own
ExtIdle ==
  /\ ext_url = <<>>
  /\ ext_ct = <<>>
  /\ ext_out = <<>>

\* no run of fetch_best_landscape_any
ScanIdle ==
  /\ title = <<>>
  /\ probe = <<>>
  /\ ordered = <<>>
  /\ i = 0
  /\ best = None
  /\ checked = 0
  /\ valid_candidates = 0
  /\ result = None
  /\ bulk = ProbeFailure
  /\ probes = 0
  /\ examined = <<>>
  /\ queried = <<>>
  /\ faulty = {}
  /\ stop = "no"

gatherVars == <<probe, ordered, result, bulk, queried, faulty, title>>

Init ==
  /\ pc = "movie_db"
  /\ title \in {PlainTitle, SurrogateTitle}
  /\ probe = <<>>
  /\ ordered = <<>>
  /\ i = 0
  /\ best = None
  /\ checked = 0
  /\ valid_candidates = 0
  /\ result = None
  /\ bulk = ProbeFailure
  /\ probes = 0
  /\ examined = <<>>
  /\ queried = <<>>
  /\ faulty = {}
  /\ stop = "no"
  /\ ExtIdle
  /\ ScoreIdle
  /\ MainIdle

\* The call of one adapter by fetch_best_landscape_any, which has no try
\* around it: probe.extend(value) when the adapter returns, the exception
\* leaves fetch_best_landscape_any when it raises.
CallAdapter(name, ret, failed, nextpc) ==
  /\ queried' = Append(queried,
                       [name |-> name,
                        count |-> IF ret.raised THEN 0 ELSE Len(ret.value)])
  /\ faulty' = IF failed THEN faulty \cup {name} ELSE faulty
  /\ IF ret.raised
     THEN /\ pc' = "raised"
          /\ probe' = probe
     ELSE /\ pc' = nextpc
          /\ probe' = probe \o ret.value
  /\ UNCHANGED <<ordered, result, bulk, title>>
  /\ UNCHANGED scanVars
  /\ UNCHANGED <<extVars, scoreVars, mainVars>>

SkipAdapter(nextpc) ==
  /\ pc' = nextpc
  /\ UNCHANGED gatherVars
  /\ UNCHANGED scanVars
  /\ UNCHANGED <<extVars, scoreVars, mainVars>>

QueryMovieDatabases ==
  /\ pc = "movie_db"
  /\ \E tmdb \in RequestsFor(title, TmdbOutcomes, Outcome(<<>>, TRUE)) :
       CallAdapter("movie_db", try_movie_databases(tmdb), tmdb.fail,
                   "free_apis")

QueryFreeApis ==
  /\ pc = "free_apis"
  /\ Len(probe) < FREE_API_LIMIT
  /\ \E u \in RequestsFor(title, UnsplashOutcomes, Outcome(<<>>, TRUE)),
        p \in RequestsFor(title, PixabayOutcomes, Outcome(<<>>, TRUE)) :
       CallAdapter("free_apis", try_free_image_apis(u, p), u.fail \/ p.fail,
                   "google")

SkipFreeApis ==
  /\ pc = "free_apis"
  /\ ~(Len(probe) < FREE_API_LIMIT)
  /\ SkipAdapter("google")

QueryGoogle ==
  /\ pc = "google"
  /\ Len(probe) < GOOGLE_LIMIT
  /\ \E g \in GoogleOutcomes :
       CallAdapter("google", google_image_search_any(title, g, GOOGLE_MAX),
                   AnyFail(g), "ddg")

SkipGoogle ==
  /\ pc = "google"
  /\ ~(Len(probe) < GOOGLE_LIMIT)
  /\ SkipAdapter("ddg")

QueryDdg ==
  /\ pc = "ddg"
  /\ Len(probe) < DDG_LIMIT
  /\ \E d \in RequestsFor(title, DdgOutcomes, AllFail(DDG_REQUESTS)) :
       CallAdapter("ddg", ddg_image_search_any(d, DDG_MAX), AnyFail(d), "bing")

SkipDdg ==
  /\ pc = "ddg"
  /\ ~(Len(probe) < DDG_LIMIT)
  /\ SkipAdapter("bing")

QueryBing ==
  /\ pc = "bing"
  /\ Len(probe) < BING_LIMIT
  /\ \E b \in RequestsFor(title, BingOutcomes, AllFail(BING_REQUESTS)) :
       CallAdapter("bing", bing_image_search_any(b, BING_MAX), AnyFail(b),
                   "dedup")

SkipBing ==
  /\ pc = "bing"
  /\ ~(Len(probe) < BING_LIMIT)
  /\ SkipAdapter("dedup")

\* The deduplication loop, the early return on an empty list, and the
\* initialisation of the scan; the network's bulk response is fixed here.
DedupAndStart ==
  /\ pc = "dedup"
  /\ ordered' = Deduplicate(probe)
  /\ IF Len(ordered') = 0
     THEN /\ pc' = "done"
          /\ result' = <<None, None>>
          /\ bulk' = bulk
     ELSE /\ pc' = "scan"
          /\ result' = result
          /\ bulk' \in Responses
  /\ i' = 0
  /\ best' = ScanStart.best
  /\ checked' = ScanStart.checked
  /\ valid_candidates' = ScanStart.valid_candidates
  /\ UNCHANGED <<probe, probes, examined, queried, faulty, title, stop>>
  /\ UNCHANGED <<extVars, scoreVars, mainVars>>

\* what fetch_image_and_dims can give for a URL
Answers(url) == IF url \in FreeUrls THEN Responses ELSE {bulk}

\* the locals after an iteration that ends as n tells: best, checked,
\* valid_candidates, and i unless the loop breaks
ScanMove(n) ==
  /\ best' = n.best
  /\ checked' = n.checked
  /\ valid_candidates' = n.valid_candidates
  /\ IF n.ctl \in {"break_early", "break_cap"}
     THEN /\ pc' = "return"
          /\ i' = i
          /\ stop' = n.ctl
     ELSE /\ pc' = "scan"
          /\ i' = i + 1
          /\ stop' = stop

\* One iteration of the loop on response r.  probe is not read once the
\* loop runs, and the record of the adapter calls ends there: the model
\* forgets the three at the first iteration.
ScanStep(r) ==
  /\ pc = "scan"
  /\ i < Len(ordered)
  /\ r \in Answers(ordered[i + 1])
  /\ ScanMove(ScanBody([best |-> best, checked |-> checked,
                        valid_candidates |-> valid_candidates,
                        ctl |-> "next"], ordered[i + 1], r))
  /\ probes' = probes + 1
  /\ examined' = Append(examined, r)
  /\ probe' = <<>>
  /\ queried' = <<>>
  /\ faulty' = {}
  /\ UNCHANGED <<ordered, result, bulk, title>>
  /\ UNCHANGED <<extVars, scoreVars, mainVars>>

\* fetch_image_and_dims raises
ProbeFails == \E r \in Responses : ~r.ok /\ ScanStep(r)

\* the image is fetched and rejected by a filter
ProbeRejected == \E r \in Responses : r.ok /\ Rejected(r) /\ ScanStep(r)

\* the image passes the filters and the loop goes on
ProbeAccepted ==
  \E r \in Responses : r.ok /\ ~Rejected(r) /\ ScanStep(r) /\ pc' = "scan"

\* the image passes the filters and the loop breaks
ProbeBreaks ==
  \E r \in Responses : r.ok /\ ~Rejected(r) /\ ScanStep(r) /\ pc' = "return"

\* the list is consumed
ScanExhausted ==
  /\ pc = "scan"
  /\ ~(i < Len(ordered))
  /\ pc' = "return"
  /\ stop' = "exhausted"
  /\ UNCHANGED <<probe, ordered, result, bulk, queried, faulty, title>>
  /\ UNCHANGED <<i, best, checked, valid_candidates, probes, examined>>
  /\ UNCHANGED <<extVars, scoreVars, mainVars>>

Return ==
  /\ pc = "return"
  /\ result' = ReturnValue(best)
  /\ pc' = "done"
  /\ UNCHANGED <<probe, ordered, bulk, queried, faulty, title>>
  /\ UNCHANGED scanVars
  /\ UNCHANGED <<extVars, scoreVars, mainVars>>

Next ==
  \/ QueryMovieDatabases
  \/ QueryFreeApis
  \/ SkipFreeApis
  \/ QueryGoogle
  \/ SkipGoogle
  \/ QueryDdg
  \/ SkipDdg
  \/ QueryBing
  \/ SkipBing
  \/ DedupAndStart
  \/ ProbeFails
  \/ ProbeRejected
  \/ ProbeAccepted
  \/ ProbeBreaks
  \/ ScanExhausted
  \/ Return

Spec == Init /\ [][Next]_vars


\* ----------------------------------------------- infer_ext on its own --

UrlTokens ==
  {S_jpg, S_jpeg, S_png, S_webp, S_gif, <<"j","p","e">>,
   <<"J","P","G">>, <<"J","p","e","G">>, <<"P","N","G">>, <<"W","e","b","P">>}

UrlSuffixes == {<<>>, <<"?","q">>, <<"?">>, <<"/","x">>, <<"x">>, <<"\n">>}

\* URLs with one extension token in every position, without a dot, with two
\* tokens, and with none
UrlStrings ==
  {S_base \o <<".">> \o t \o x : t \in UrlTokens, x \in UrlSuffixes}
  \cup {S_base \o t : t \in UrlTokens}
  \cup {S_base \o EXT_PNG \o <<"?","u","=">> \o S_base \o <<".">> \o t :
          t \in UrlTokens}
  \cup {S_base \o EXT_WEBP \o <<"/">> \o S_base \o <<".">> \o t :
          t \in UrlTokens}
  \cup {S_base, <<>>}

\* Content-Type headers: absent, the three image types in both cases, the
\* jpg spelling, other types, and headers that name two types
CtStrings ==
  {<<>>, CT_JPEG, CT_PNG, CT_WEBP, CT_HTML,
   S_image \o S_jpg, S_image \o S_gif,
   <<"I","M","A","G","E","/">> \o <<"P","N","G">>,
   <<"I","m","a","g","e","/">> \o <<"J","P","E","G">>,
   <<"i","m","a","g","e","/">> \o <<"W","e","b","P">>,
   CT_WEBP \o <<";">> \o S_png,
   CT_JPEG \o <<",">> \o CT_WEBP,
   CT_JPEG \o <<";","q","=","1">>,
   <<"p","n">>}

InitExt ==
  /\ pc = "ext_call"
  /\ ext_url \in UrlStrings
  /\ ext_ct \in CtStrings
  /\ ext_out = <<>>
  /\ ScanIdle
  /\ ScoreIdle
  /\ MainIdle

InferExt ==
  /\ pc = "ext_call"
  /\ ext_out' = infer_ext(ext_url, ext_ct)
  /\ pc' = "ext_done"
  /\ UNCHANGED <<ext_url, ext_ct>>
  /\ UNCHANGED <<gatherVars, scanVars, scoreVars, mainVars>>

NextExt == InferExt

SpecExt == InitExt /\ [][NextExt]_vars


\* ------------------------------------------- score_landscape on its own --

\* widths around the two floors, common and odd widths, very wide images
\* up to the widest one whose logarithm the model computes, and the width
\* of LIBM_LOG_ABOVE
ScoreWidths ==
  (1270..1290) \cup (1910..1930)
  \cup {1, 640, 1600, 1646, 1962, 2000, 2560, 2582, 3840, 7680, 9170,
        15360, 20480, 65536, 131071}

ScoreHeights == {494, 720, 1080}

InitScore ==
  /\ pc = "score_call"
  /\ score_in \in [img : {ImgA, ImgE}, w : ScoreWidths, h : ScoreHeights]
  /\ score_out = <<>>
  /\ ScanIdle
  /\ ExtIdle
  /\ MainIdle

\* a call score_landscape(candidate_bytes, w, h, poster_lab), with the
\* terms of its sum
ScoreLandscape ==
  /\ pc = "score_call"
  /\ score_out' =
       [color |-> ColorTerm(score_in.img),
        ar_pen |-> AspectPenalty(score_in.w, score_in.h),
        size_bonus |-> SizeBonus(score_in.w),
        width_bonus |-> WidthBonus(score_in.w),
        score |-> score_landscape(score_in.img, score_in.w, score_in.h)]
  /\ pc' = "score_done"
  /\ UNCHANGED <<score_in, gatherVars, scanVars, extVars, mainVars>>

NextScore == ScoreLandscape

SpecScore == InitScore /\ [][NextScore]_vars


\* -------------------------------------------- posters.py: the poster --

MIN_POSTER_HEIGHT == 2000

\* heights = widths = [6000, 5000, 4000, 3500, 3000, 2500, 2200, 2000]
VariantSizes ==
  <<<<"6","0","0","0">>, <<"5","0","0","0">>, <<"4","0","0","0">>,
    <<"3","5","0","0">>, <<"3","0","0","0">>, <<"2","5","0","0">>,
    <<"2","2","0","0">>, <<"2","0","0","0">>>>

S_V1_FMjpg_UY == <<"_","V","1","_","F","M","j","p","g","_","U","Y">>
S_V1_FMjpg_UX == <<"_","V","1","_","F","M","j","p","g","_","U","X">>

\* IMDB_URL_RE ends its match at the dot d of an extension token: directly
\* after the prefix, or after _V1_ (in any case: re.IGNORECASE) and flags
\* that hold no dot
DotAfterPrefix(url, p) ==
  IF /\ Lower(SubSeq(url, p + 1, Min(p + 4, Len(url)))) = <<"_","v","1","_">>
     /\ \E d \in MatchPositions(url) :
          d >= p + 5 /\ \A j \in (p + 5)..(d - 1) : url[j] # "."
  THEN CHOOSE d \in MatchPositions(url) :
         d >= p + 5 /\ \A j \in (p + 5)..(d - 1) : url[j] # "."
  ELSE IF (p + 1) \in MatchPositions(url) THEN p + 1
  ELSE 0

\* the lengths of prefix with which IMDB_URL_RE matches; .+? takes the least
PrefixLengths(url) == {p \in 1..Len(url) : DotAfterPrefix(url, p) # 0}

\* imdb_hi_res_variants of posters.py, on a URL without newline
imdb_hi_res_variants(url) ==
  IF PrefixLengths(url) = {} THEN <<url>>
  ELSE LET p  == CHOOSE a \in PrefixLengths(url) :
                   \A b \in PrefixLengths(url) : a <= b
           d  == DotAfterPrefix(url, p)
           n  == Len(SearchExtToken(SubSeq(url, d, Len(url))))
           prefix == SubSeq(url, 1, p)
           ext == SubSeq(url, d + 1, d + n)
           qs  == SubSeq(url, d + n + 1, Len(url))
       IN  [k \in 1..8 |->
              prefix \o S_V1_FMjpg_UY \o VariantSizes[k] \o <<"_",".">>
                \o ext \o qs]
           \o [k \in 1..8 |->
                 prefix \o S_V1_FMjpg_UX \o VariantSizes[k] \o <<"_",".">>
                   \o ext \o qs]
           \o <<prefix \o <<"_","V","1","_",".">> \o ext \o qs>>

\* avg_color_lab of the poster, when it can be computed
LabOf(r) == <<"lab", r.data>>

\* the loop of fetch_poster_imdb over the variants, from number k; an
\* exception of fetch_image_and_dims or of avg_color_lab skips the variant
RECURSIVE VariantLoop(_, _, _, _)
VariantLoop(variants, k, resp, min_height) ==
  IF k > Len(variants) THEN <<None, None, None>>
  ELSE LET r == resp[k]
       IN  IF r.ok /\ r.h >= min_height /\ r.h > r.w /\ r.color_ok
           THEN <<r.data, infer_ext(variants[k], r.ct), LabOf(r)>>
           ELSE VariantLoop(variants, k + 1, resp, min_height)

\* The three statements that find img_url, in both programs:
\*   js = imdb_suggest(title)
\*   picked = pick_imdb_title(js, title) if js else None
\*   img_url = (picked or {}).get("i", {}).get("imageUrl") if picked else None
\* imdb_suggest quotes the title before its try, and the .get chain has no
\* try at all: the lookup raises on a title that quote cannot encode and on
\* an answer of IMDb that is not shaped as expected (answer is Raised then);
\* otherwise it gives the image URL, None when nothing is found.
ImdbLookup(t, answer) == IF quote(t).raised THEN Raised ELSE answer

\* fetch_poster_imdb of posters.py.  answer is what IMDb answers for the
\* title; resp[k] is what fetch_image_and_dims gives for variant number k.
fetch_poster_imdb(t, answer, resp, min_height) ==
  LET img_url == ImdbLookup(t, answer)
  IN  IF img_url.raised THEN Raised
      ELSE IF img_url.value = None THEN Returned(<<None, None, None>>)
      ELSE Returned(VariantLoop(imdb_hi_res_variants(img_url.value), 1, resp,
                                min_height))


\* ------------------------------- download-images/script.py: the poster --

S_V1 == <<"_","V","1","_">>

\* str.find + 1: the position of the first occurrence of sub, 0 without one
Find(s, sub) ==
  LET at == {k \in 1..(Len(s) - Len(sub) + 1) :
               SubSeq(s, k, k + Len(sub) - 1) = sub}
  IN  IF at = {} THEN 0 ELSE CHOOSE k \in at : \A j \in at : k <= j

\* re.sub(r"(\.(?:jpe?g|png|webp))(?:\?.*)?$", r"._V1_\1", url, flags=re.I)
\* on a URL without newline: the token goes before the extension and the
\* query string is dropped
InsertV1(url) ==
  IF MatchPositions(url) = {} THEN url
  ELSE LET k == CHOOSE p \in MatchPositions(url) :
                  \A q \in MatchPositions(url) : p <= q
           n == Len(SearchExtToken(url))
       IN  SubSeq(url, 1, k - 1) \o <<".">> \o S_V1 \o SubSeq(url, k, k + n)

\* re.split(r"(_V1_)", url, maxsplit=1): the pattern has a group, so the
\* separator is part of the list
SplitV1(url) ==
  LET k == Find(url, S_V1)
  IN  IF k = 0 THEN <<url>>
      ELSE <<SubSeq(url, 1, k - 1), S_V1, SubSeq(url, k + 4, Len(url))>>

\* str.split("_V1_", 1)
SplitPlain(s) ==
  LET k == Find(s, S_V1)
  IN  IF k = 0 THEN <<s>>
      ELSE <<SubSeq(s, 1, k - 1), SubSeq(s, k + 4, Len(s))>>

\* sizes_h = sizes_w = [4000, 3000, 2500, 2200, 2000], as text
HiResSizes ==
  <<<<"4","0","0","0">>, <<"3","0","0","0">>, <<"2","5","0","0">>,
    <<"2","2","0","0">>, <<"2","0","0","0">>>>

S_FMjpg_UY == <<"F","M","j","p","g","_","U","Y">>
S_FMjpg_UX == <<"F","M","j","p","g","_","U","X">>

\* the eleven variants built from base and ext
HiResVariants(base, tail) ==
  [k \in 1..5 |-> base \o S_V1 \o S_FMjpg_UY \o HiResSizes[k] \o <<"_">> \o tail]
  \o [k \in 1..5 |->
        base \o S_V1 \o S_FMjpg_UX \o HiResSizes[k] \o <<"_">> \o tail]
  \o <<base \o S_V1 \o EXT_JPG>>

\* imdb_hi_res_from_url:  base, ext = re.split(...)  unpacks a list of one
\* or three strings into two names, which raises ValueError
imdb_hi_res_from_url(url) ==
  LET u     == IF Find(url, S_V1) = 0 THEN InsertV1(url) ELSE url
      parts == SplitV1(u)
  IN  IF Len(parts) # 2 THEN Raised
      ELSE IF Len(SplitPlain(parts[2])) < 2 THEN Raised
      ELSE Returned(HiResVariants(parts[1], SplitPlain(parts[2])[2]))

\* the loop of fetch_poster_imdb over the candidates, from number k: the
\* first image that is tall enough and portrait.  resp[k] is what
\* fetch_image_and_dims gives for candidate number k.
RECURSIVE PosterLoop(_, _, _, _)
PosterLoop(candidates, k, resp, min_height) ==
  IF k > Len(candidates) THEN <<None, None>>
  ELSE LET r == resp[k]
       IN  IF r.ok /\ r.h >= min_height /\ r.h > r.w
           THEN <<r.data, infer_ext(candidates[k], r.ct)>>
           ELSE PosterLoop(candidates, k + 1, resp, min_height)

\* fetch_poster_imdb of script.py.  With an override_url IMDb is not
\* asked; answer is what IMDb answers for the title otherwise.
script_fetch_poster_imdb(t, answer, override_url, resp, min_height) ==
  LET img_url == IF override_url # None THEN Returned(override_url)
                 ELSE ImdbLookup(t, answer)
      c       == imdb_hi_res_from_url(img_url.value)
  IN  IF img_url.raised THEN Raised
      ELSE IF img_url.value = None THEN Returned(<<None, None>>)
      ELSE IF c.raised THEN Raised
      ELSE Returned(PosterLoop(c.value, 1, resp, min_height))


\* ---------------------------- download-images/script.py: the landscape --

SIZE_TARGETS ==
  <<<<7680, 4320>>, <<5120, 2880>>, <<4096, 2304>>, <<3840, 2160>>,
    <<3200, 1800>>, <<3072, 1728>>, <<2560, 1440>>, <<2048, 1152>>,
    <<2000, 1125>>>>

\* A URL of the landscape half: id stands for the text around the size
\* token, size is the token WxH that re.findall(r"(\d{3,5}x\d{3,5})") finds
\* (<<>> when the URL has none), cbsi tells whether CBSI_HOST occurs in it.
LandUrl(id, size, cbsi) == [id |-> id, size |-> size, cbsi |-> cbsi]

\* no URL: None, or the empty string
NoLandUrl == LandUrl(0, <<>>, FALSE)

\* the text of such a URL, as far as infer_ext looks at it
LandUrlStr(url) ==
  IF url.id % 2 = 1 THEN S_base \o EXT_JPG ELSE S_base \o EXT_WEBP \o <<"?","x">>

\* try_paramount_variants: the URL with its token replaced by each target
\* size, then the URL itself unless it is one of them
try_paramount_variants(url) ==
  LET variants ==
        IF url.size # <<>>
        THEN [k \in 1..Len(SIZE_TARGETS) |-> [url EXCEPT !.size = SIZE_TARGETS[k]]]
        ELSE <<>>
  IN  IF \E k \in 1..Len(variants) : variants[k] = url
      THEN variants ELSE Append(variants, url)

\* ddg_search_paramount: the result links that name the host, cut to
\* max_results; the empty list when the request or the parsing raises
ddg_search_paramount(ddg, max_results) ==
  IF ddg.fail THEN <<>>
  ELSE Take(SelectSeq(ddg.urls, LAMBDA u : u.cbsi), max_results)

\* for url in ...: probe_list.extend(try_paramount_variants(url))
RECURSIVE ExtendAll(_, _)
ExtendAll(urls, k) ==
  IF k > Len(urls) THEN <<>>
  ELSE try_paramount_variants(urls[k]) \o ExtendAll(urls, k + 1)

\* the loop of fetch_landscape_paramount over ordered, from number k: the
\* first image that is wide enough and landscape; n counts the probes
RECURSIVE LandLoop(_, _, _, _)
LandLoop(ordered_urls, k, resp, min_w) ==
  IF k > Len(ordered_urls) THEN [value |-> <<None, None>>, probed |-> k - 1]
  ELSE LET r == resp[ordered_urls[k]]
       IN  IF r.ok /\ r.w >= min_w /\ r.w > r.h
           THEN [value |-> <<r.data, infer_ext(LandUrlStr(ordered_urls[k]),
                                                r.ct)>>,
                 probed |-> k]
           ELSE LandLoop(ordered_urls, k + 1, resp, min_w)

\* ddg_search_paramount(title, 12)
DDG_PARAMOUNT_MAX == 12

\* fetch_landscape_paramount, with the list it probed and the number of
\* its probes
fetch_landscape_paramount(ddg, override_url, resp, min_w) ==
  LET probe_list ==
        IF override_url # NoLandUrl THEN try_paramount_variants(override_url)
        ELSE ExtendAll(ddg_search_paramount(ddg, DDG_PARAMOUNT_MAX), 1)
      ordered_urls == FirstOccurrences(probe_list)
      out == LandLoop(ordered_urls, 1, resp, min_w)
  IN  [raised |-> FALSE, value |-> out.value, ordered |-> ordered_urls,
       probed |-> out.probed]


\* ------------------------------------------------ the world of main --

\* posters as the image host serves them
PosterTall    == Image(21, 2000, 3000, CT_JPEG, TRUE, 0)
PosterTall2   == Image(22, 4000, 6000, <<>>, TRUE, 0)
PosterShort   == Image(23, 1333, 1999, CT_JPEG, TRUE, 0)
PosterWide    == Image(24, 3000, 2000, CT_JPEG, TRUE, 0)
PosterSquare  == Image(25, 2000, 2000, CT_PNG, TRUE, 0)
PosterNoColor == Image(26, 2000, 3000, CT_PNG, FALSE, 0)

\* the number of variants that imdb_hi_res_variants builds
NVariants == 17

\* the answers to the probes of the variants: those of first, then rest
\* for every later variant
Answers17(first, rest) ==
  first \o [k \in 1..(NVariants - Len(first)) |-> rest]

PosterAnswers ==
  {Answers17(<<>>, ProbeFailure),
   Answers17(<<>>, PosterTall),
   Answers17(<<ProbeFailure, PosterShort, PosterWide, PosterSquare>>,
             PosterTall2),
   Answers17(<<>>, PosterNoColor),
   Answers17(<<PosterNoColor, ProbeFailure>>, PosterTall),
   Answers17(<<>>, PosterWide)}

U_plain == S_base \o EXT_JPG
U_v1    == S_base \o <<".">> \o S_V1 \o EXT_JPG
U_flags == S_base \o <<".">> \o S_V1 \o <<"U","X","1","_">> \o EXT_PNG
             \o <<"?","x">>

U_lower == S_base \o <<"_","v","1","_">> \o EXT_JPG

\* what imdb_suggest and pick_imdb_title find: nothing, or an image URL
ImgUrls == {None, U_plain, U_v1, U_flags, U_lower, S_base}

\* what IMDb answers: a suggestion with such an image URL, or JSON on which
\* the lookup raises ("i": null, "i" a list, "d" not a list of objects)
ImdbAnswers == {Returned(u) : u \in ImgUrls} \cup {Raised}

\* what the user types at the title prompt
Titles == {<<>>, PlainTitle, SurrogateTitle}

\* what the user pastes as IMDb poster URL in script.py
ImdbInputs == {None, U_v1, U_plain}

\* how the CDN answers for the URLs of one id
LandKinds == {"dead", "small", "portrait", "square", "edge", "under", "sized"}

\* fetch_image_and_dims(url) on a host of kind kind
LandServe(kind, url) ==
  IF kind = "small" THEN Image(31, 1920, 1080, CT_JPEG, TRUE, 0)
  ELSE IF kind = "portrait" THEN Image(32, 2000, 3000, CT_JPEG, TRUE, 0)
  ELSE IF kind = "square" THEN Image(33, 2000, 2000, CT_PNG, TRUE, 0)
  ELSE IF kind = "edge" THEN Image(34, 2000, 1125, <<>>, TRUE, 0)
  ELSE IF kind = "under" THEN Image(35, 1999, 1124, CT_JPEG, TRUE, 0)
  ELSE IF kind = "sized" /\ url.size # <<>> /\ url.size[1] <= 3840
    THEN Image(url.size[1], url.size[1], url.size[2], CT_WEBP, TRUE, 0)
  ELSE ProbeFailure

\* the ids of the landscape URLs
LandIds == {1, 2}

\* the size tokens of the URLs, <<>> for a URL without one
LandSizes ==
  {<<>>, <<640, 360>>, <<1280, 720>>}
  \cup {SIZE_TARGETS[k] : k \in 1..Len(SIZE_TARGETS)}

\* the URLs that can be probed
LandUrls == [id : LandIds, size : LandSizes, cbsi : BOOLEAN]

\* what the user pastes as Paramount URL in script.py
ParamInputs ==
  {NoLandUrl, LandUrl(1, <<640, 360>>, TRUE), LandUrl(1, <<>>, TRUE),
   LandUrl(2, <<3840, 2160>>, FALSE)}

\* the result links of the DuckDuckGo search
DdgLinks ==
  {<<>>,
   <<LandUrl(1, <<640, 360>>, TRUE)>>,
   <<LandUrl(2, <<>>, FALSE), LandUrl(1, <<>>, TRUE),
     LandUrl(1, <<1280, 720>>, TRUE), LandUrl(1, <<640, 360>>, TRUE)>>,
   <<LandUrl(1, <<640, 360>>, TRUE), LandUrl(2, <<640, 360>>, TRUE),
     LandUrl(1, <<640, 360>>, TRUE)>>,
   [k \in 1..(DDG_PARAMOUNT_MAX + 1) |->
      IF k <= DDG_PARAMOUNT_MAX THEN LandUrl(1, <<>>, TRUE)
      ELSE LandUrl(2, <<>>, TRUE)]}

ParamountDdgOutcomes ==
  {Outcome(l, FALSE) : l \in DdgLinks}
  \cup {Outcome(<<LandUrl(1, <<640, 360>>, TRUE)>>, TRUE)}


\* what the user pastes as landscape URL in posters.py: google tells
\* whether 'google.com' and '&url=' occur in it, url_param is the value of
\* its query parameter url, text is the URL itself
Pasted(google, url_param, text) ==
  [google |-> google, url_param |-> url_param, text |-> text]

NothingPasted == Pasted(FALSE, None, <<>>)

LandscapeInputs ==
  {NothingPasted,
   Pasted(FALSE, None, S_base \o EXT_PNG),
   Pasted(TRUE, S_base \o EXT_WEBP, S_base \o <<"&","u","r","l","=">>)}

\* extract_actual_image_url
extract_actual_image_url(url) ==
  IF url.google /\ url.url_param # None THEN url.url_param ELSE url.text

\* what fetch_image_and_dims gives for the pasted URL
DirectAnswers == {ProbeFailure, ImgA, ImgNarrow, ImgSquare, PosterTall}

\* the min_height and min_width that main of script.py passes
SCRIPT_MIN_HEIGHT == 2000
SCRIPT_MIN_WIDTH == 2000

\* exit status of a process that still runs
RUNNING == 0 - 1

\* sys.exit(130), in the handler of both programs
EXIT_INTERRUPTED == 130

\* status of a process that a KeyboardInterrupt nothing catches has ended:
\* the interpreter prints the traceback and ends by the signal SIGINT, which
\* the parent process reads as -2
EXIT_SIGINT == 0 - 2

\* ------------------------------------------------------------- main --

InitMain ==
  /\ pc = "main"
  /\ script \in {"posters", "script"}
  /\ mpc = "title"
  /\ user = [param_url |-> NoLandUrl, imdb_url |-> None,
             landscape_url |-> NothingPasted, save_anyway |-> <<>>,
             eof |-> FALSE, ctrl_c |-> FALSE]
  /\ net = [imdb |-> Returned(None), poster_resp |-> <<>>,
            ddg |-> Outcome(<<>>, FALSE), kinds |-> <<>>,
            actual_url |-> None, direct |-> ProbeFailure]
  /\ poster_ret = <<None, None, None>>
  /\ land_ret = [value |-> <<None, None>>, ordered |-> <<>>, probed |-> 0]
  /\ files = [poster |-> "absent", land |-> "absent"]
  /\ exit_status = RUNNING
  /\ printed = {}
  /\ called = <<>>
  /\ ScanIdle
  /\ ExtIdle
  /\ ScoreIdle

\* the variables of the other specifications, but for the title
otherVars == <<pc, probe, ordered, result, bulk, queried, faulty, scanVars,
               extVars, scoreVars>>

\* the process ends with status st after printing msg
Exit(msg, st) ==
  /\ printed' = printed \cup {msg}
  /\ exit_status' = st
  /\ mpc' = "exited"

\* main prints msg at position at and moves to position to
PrintAt(at, msg, to) ==
  /\ mpc = at
  /\ printed' = printed \cup {msg}
  /\ mpc' = to
  /\ UNCHANGED <<title, script, user, net, poster_ret, land_ret, files,
                 exit_status, called>>

\* main calls the function f at position at and waits for it at position to
CallAt(at, f, to) ==
  /\ mpc = at
  /\ called' = Append(called, f)
  /\ mpc' = to
  /\ UNCHANGED <<title, script, user, net, poster_ret, land_ret, files,
                 exit_status, printed>>

\* title = input("Enter film title: ").strip()
ReadTitle ==
  /\ mpc = "title"
  /\ \E t \in Titles :
       /\ title' = t
       /\ mpc' = IF t = <<>> THEN "no_title"
                 ELSE IF script = "script" THEN "param_url"
                 ELSE "poster"
  /\ UNCHANGED <<script, user, net, poster_ret, land_ret, files, exit_status,
                 printed, called>>
  /\ UNCHANGED otherVars

\* if not title: print("No title provided.")
PrintNoTitle ==
  /\ PrintAt("no_title", "No title provided.", "no_title_exit")
  /\ UNCHANGED otherVars

\* sys.exit(1), the statement after the print
ExitNoTitle ==
  /\ mpc = "no_title_exit"
  /\ exit_status' = 1
  /\ mpc' = "exited"
  /\ UNCHANGED <<title, script, user, net, poster_ret, land_ret, files,
                 printed, called>>
  /\ UNCHANGED otherVars

\* script.py: param_url = input().strip() or None
ReadParamUrl ==
  /\ mpc = "param_url"
  /\ \E p \in ParamInputs : user' = [user EXCEPT !.param_url = p]
  /\ mpc' = "imdb_url"
  /\ UNCHANGED <<title, script, net, poster_ret, land_ret, files,
                 exit_status, printed, called>>
  /\ UNCHANGED otherVars

\* script.py: imdb_url = input().strip() or None
ReadImdbUrl ==
  /\ mpc = "imdb_url"
  /\ \E u \in ImdbInputs : user' = [user EXCEPT !.imdb_url = u]
  /\ mpc' = "poster"
  /\ UNCHANGED <<title, script, net, poster_ret, land_ret, files,
                 exit_status, printed, called>>
  /\ UNCHANGED otherVars

\* the prompts at which input() is called outside any try
OpenPrompts == {"title", "param_url", "imdb_url", "land_ask"}

\* stdin ends at a prompt: input() raises EOFError, which main does not
\* catch there; the process ends with a traceback and status 1
EndOfInput ==
  /\ mpc \in OpenPrompts
  /\ user' = [user EXCEPT !.eof = TRUE]
  /\ Exit("Traceback", 1)
  /\ UNCHANGED <<title, script, net, poster_ret, land_ret, files, called>>
  /\ UNCHANGED otherVars

\* where main goes after the poster half
AfterPoster == IF script = "script" THEN "land" ELSE "land_ask"

\* main calls fetch_poster_imdb, which waits for the network
CallFetchPoster ==
  /\ CallAt("poster", "fetch_poster_imdb", "poster_wait")
  /\ UNCHANGED otherVars

\* fetch_poster_imdb ends: its value is assigned in main, or an exception
\* leaves it, which main does not catch: the process ends with a traceback
\* and status 1
ReturnFetchPoster ==
  /\ mpc = "poster_wait"
  /\ \E u \in ImdbAnswers, a \in PosterAnswers :
       LET ret == IF script = "script"
                  THEN script_fetch_poster_imdb(title, u, user.imdb_url, a,
                                                SCRIPT_MIN_HEIGHT)
                  ELSE fetch_poster_imdb(title, u, a, MIN_POSTER_HEIGHT)
           missing == IF script = "script"
                      THEN ret.value[1] = None
                      ELSE ret.value[1] = None \/ ret.value[3] = None
       IN  /\ net' = [net EXCEPT !.imdb = u, !.poster_resp = a]
           /\ IF ret.raised
              THEN /\ Exit("Traceback", 1)
                   /\ poster_ret' = poster_ret
              ELSE /\ poster_ret' = ret.value
                   /\ mpc' = IF missing THEN "poster_none" ELSE "poster_open"
                   /\ UNCHANGED <<printed, exit_status>>
  /\ UNCHANGED <<title, script, user, land_ret, files, called>>
  /\ UNCHANGED otherVars

\* print("Could not find an IMDb poster ...")
PrintNoPoster ==
  /\ PrintAt("poster_none", "no poster", AfterPoster)
  /\ UNCHANGED otherVars

\* with open(poster_path, "wb") as f:  the file exists, empty
OpenPoster ==
  /\ mpc = "poster_open"
  /\ files' = [files EXCEPT !.poster = "empty"]
  /\ mpc' = "poster_write"
  /\ UNCHANGED <<title, script, user, net, poster_ret, land_ret, exit_status,
                 printed, called>>
  /\ UNCHANGED otherVars

\* f.write(poster_bytes), and the file is closed
WritePoster ==
  /\ mpc = "poster_write"
  /\ files' = [files EXCEPT !.poster = "complete"]
  /\ mpc' = "poster_saved"
  /\ UNCHANGED <<title, script, user, net, poster_ret, land_ret, exit_status,
                 printed, called>>
  /\ UNCHANGED otherVars

\* print(f"Saved: {poster_path}")
PrintSavedPoster ==
  /\ PrintAt("poster_saved", "Saved poster", AfterPoster)
  /\ UNCHANGED otherVars

\* script.py: main calls fetch_landscape_paramount, which waits for the
\* network
CallFetchLandscape ==
  /\ CallAt("land", "fetch_landscape_paramount", "land_wait")
  /\ UNCHANGED otherVars

\* script.py: fetch_landscape_paramount returns and its value is assigned
ReturnFetchLandscape ==
  /\ mpc = "land_wait"
  /\ \E d \in ParamountDdgOutcomes, kinds \in [LandIds -> LandKinds] :
       LET resp == [u \in LandUrls |-> LandServe(kinds[u.id], u)]
           ret  == fetch_landscape_paramount(d, user.param_url, resp,
                                             SCRIPT_MIN_WIDTH)
       IN  /\ net' = [net EXCEPT !.ddg = d, !.kinds = kinds]
           /\ land_ret' = [value |-> ret.value, ordered |-> ret.ordered,
                           probed |-> ret.probed]
           /\ mpc' = IF ret.value[1] = None THEN "land_none" ELSE "land_open"
  /\ UNCHANGED <<title, script, user, poster_ret, files, exit_status,
                 printed, called>>
  /\ UNCHANGED otherVars

\* script.py: print("Could not find a Paramount/CBSi 16:9 image ...")
PrintNoLandscape ==
  /\ PrintAt("land_none", "no landscape", "done")
  /\ UNCHANGED otherVars

\* posters.py: landscape_url = input(...).strip()
AskLandscapeUrl ==
  /\ mpc = "land_ask"
  /\ \E l \in LandscapeInputs :
       /\ user' = [user EXCEPT !.landscape_url = l]
       /\ mpc' = IF l = NothingPasted THEN "land_skip" ELSE "land_extract"
  /\ UNCHANGED <<title, script, net, poster_ret, land_ret, files,
                 exit_status, printed, called>>
  /\ UNCHANGED otherVars

\* posters.py: print("No landscape URL provided, skipping landscape image.")
PrintSkipping ==
  /\ PrintAt("land_skip", "skipping landscape", "done")
  /\ UNCHANGED otherVars

\* posters.py: actual_url = extract_actual_image_url(landscape_url)
ExtractUrl ==
  /\ mpc = "land_extract"
  /\ net' = [net EXCEPT
               !.actual_url = extract_actual_image_url(user.landscape_url)]
  /\ mpc' = "land_fetch"
  /\ UNCHANGED <<title, script, user, poster_ret, land_ret, files,
                 exit_status, printed, called>>
  /\ UNCHANGED otherVars

\* posters.py: a KeyboardInterrupt that arrives inside the try of
\* extract_actual_image_url is caught by its bare  except:  which returns
\* the URL as it was typed; main goes on
InterruptSwallowed ==
  /\ mpc = "land_extract"
  /\ user' = [user EXCEPT !.ctrl_c = TRUE]
  /\ net' = [net EXCEPT !.actual_url = user.landscape_url.text]
  /\ mpc' = "land_fetch"
  /\ UNCHANGED <<title, script, poster_ret, land_ret, files, exit_status,
                 printed, called>>
  /\ UNCHANGED otherVars

\* posters.py: main calls fetch_image_and_dims(actual_url), which waits for
\* the network
CallDownload ==
  /\ CallAt("land_fetch", "fetch_image_and_dims", "land_download")
  /\ UNCHANGED otherVars

\* posters.py: fetch_image_and_dims returns and ar >= 1.2 is tested, or it
\* raises and the exception is caught by  except Exception
ReturnDownload ==
  /\ mpc = "land_download"
  /\ \E r \in DirectAnswers :
       /\ net' = [net EXCEPT !.direct = r]
       /\ IF ~r.ok
          THEN /\ mpc' = "land_failed"
               /\ land_ret' = land_ret
          ELSE /\ land_ret' = [land_ret EXCEPT !.probed = 1]
               /\ mpc' = IF TooSquare(r.w, r.h) THEN "land_confirm"
                         ELSE "land_ext"
  /\ UNCHANGED <<title, script, user, poster_ret, files, exit_status,
                 printed, called>>
  /\ UNCHANGED otherVars

\* what the user types at "Save anyway? (y/n): "
SaveAnswers == {<<"y">>, <<"Y">>, <<"n">>, <<>>}

\* posters.py: save_anyway = input("Save anyway? (y/n): ").strip().lower()
\* and the test save_anyway == 'y'
ConfirmSave ==
  /\ mpc = "land_confirm"
  /\ \E a \in SaveAnswers :
       /\ user' = [user EXCEPT !.save_anyway = Lower(a)]
       /\ mpc' = IF Lower(a) = <<"y">> THEN "land_ext" ELSE "land_decline"
  /\ UNCHANGED <<title, script, net, poster_ret, land_ret, files,
                 exit_status, printed, called>>
  /\ UNCHANGED otherVars

\* posters.py: print("Landscape image not saved.")
PrintNotSaved ==
  /\ PrintAt("land_decline", "not saved", "done")
  /\ UNCHANGED otherVars

\* posters.py: stdin ends at "Save anyway?": this input() is inside the
\* try, its EOFError is caught by  except Exception
EndOfInputCaught ==
  /\ mpc = "land_confirm"
  /\ user' = [user EXCEPT !.eof = TRUE]
  /\ mpc' = "land_failed"
  /\ UNCHANGED <<title, script, net, poster_ret, land_ret, files,
                 exit_status, printed, called>>
  /\ UNCHANGED otherVars

\* posters.py: print(f"Failed to download landscape image: {e}") and the
\* tip after it, in the handler
PrintFailed ==
  /\ PrintAt("land_failed", "Failed to download", "done")
  /\ UNCHANGED otherVars

\* posters.py: land_ext = infer_ext(actual_url, ct), in both branches that
\* save: main holds the image and the extension it writes
InferLandExt ==
  /\ mpc = "land_ext"
  /\ land_ret' =
       [land_ret EXCEPT
          !.value = <<net.direct.data, infer_ext(net.actual_url, net.direct.ct)>>]
  /\ mpc' = "land_open"
  /\ UNCHANGED <<title, script, user, net, poster_ret, files, exit_status,
                 printed, called>>
  /\ UNCHANGED otherVars

\* with open(land_path, "wb") as f:  the file exists, empty
OpenLandscape ==
  /\ mpc = "land_open"
  /\ files' = [files EXCEPT !.land = "empty"]
  /\ mpc' = "land_write"
  /\ UNCHANGED <<title, script, user, net, poster_ret, land_ret, exit_status,
                 printed, called>>
  /\ UNCHANGED otherVars

\* f.write(...), and the file is closed
WriteLandscape ==
  /\ mpc = "land_write"
  /\ files' = [files EXCEPT !.land = "complete"]
  /\ mpc' = "land_saved"
  /\ UNCHANGED <<title, script, user, net, poster_ret, land_ret, exit_status,
                 printed, called>>
  /\ UNCHANGED otherVars

\* print(f"Saved: {land_path} ...")
PrintSavedLandscape ==
  /\ PrintAt("land_saved", "Saved landscape", "done")
  /\ UNCHANGED otherVars

\* print("Done.")
PrintDone ==
  /\ PrintAt("done", "Done.", "returning")
  /\ UNCHANGED otherVars

\* main returns and the process ends with status 0
ExitDone ==
  /\ mpc = "returning"
  /\ exit_status' = 0
  /\ mpc' = "exited"
  /\ UNCHANGED <<title, script, user, net, poster_ret, land_ret, files,
                 printed, called>>
  /\ UNCHANGED otherVars

\* the positions inside the handler  except KeyboardInterrupt:  around
\* main(): before print("\nCancelled.") and before sys.exit(130)
HandlerPositions == {"cancel_print", "cancel_exit"}

\* KeyboardInterrupt while main runs, between any two of its steps or while
\* it waits in a call: it leaves main and reaches  except KeyboardInterrupt:
\* around main(), in both programs; no file is removed
Interrupt ==
  /\ mpc \notin {"idle", "exited"} \cup HandlerPositions
  /\ user' = [user EXCEPT !.ctrl_c = TRUE]
  /\ mpc' = "cancel_print"
  /\ UNCHANGED <<title, script, net, poster_ret, land_ret, files,
                 exit_status, printed, called>>
  /\ UNCHANGED otherVars

\* the handler: print("\nCancelled.")
PrintCancelled ==
  /\ PrintAt("cancel_print", "Cancelled.", "cancel_exit")
  /\ UNCHANGED otherVars

\* the handler: sys.exit(130)
ExitCancelled ==
  /\ mpc = "cancel_exit"
  /\ exit_status' = EXIT_INTERRUPTED
  /\ mpc' = "exited"
  /\ UNCHANGED <<title, script, user, net, poster_ret, land_ret, files,
                 printed, called>>
  /\ UNCHANGED otherVars

\* a second KeyboardInterrupt, inside the handler, before or after its
\* print: nothing catches it, the process ends with a traceback and by
\* SIGINT
InterruptInHandler ==
  /\ mpc \in HandlerPositions
  /\ Exit("Traceback", EXIT_SIGINT)
  /\ UNCHANGED <<title, script, user, net, poster_ret, land_ret, files,
                 called>>
  /\ UNCHANGED otherVars

NextMain ==
  \/ ReadTitle
  \/ PrintNoTitle
  \/ ExitNoTitle
  \/ ReadParamUrl
  \/ ReadImdbUrl
  \/ EndOfInput
  \/ CallFetchPoster
  \/ ReturnFetchPoster
  \/ PrintNoPoster
  \/ OpenPoster
  \/ WritePoster
  \/ PrintSavedPoster
  \/ CallFetchLandscape
  \/ ReturnFetchLandscape
  \/ PrintNoLandscape
  \/ AskLandscapeUrl
  \/ PrintSkipping
  \/ ExtractUrl
  \/ InterruptSwallowed
  \/ CallDownload
  \/ ReturnDownload
  \/ ConfirmSave
  \/ PrintNotSaved
  \/ EndOfInputCaught
  \/ PrintFailed
  \/ InferLandExt
  \/ OpenLandscape
  \/ WriteLandscape
  \/ PrintSavedLandscape
  \/ PrintDone
  \/ ExitDone
  \/ Interrupt
  \/ PrintCancelled
  \/ ExitCancelled
  \/ InterruptInHandler

SpecMain == InitMain /\ [][NextMain]_vars


\* ========================================================== properties ==

\* a candidate the claims call eligible: its probe succeeded, its width is
\* at least min_width and its ratio of width to height is at least 1.2
Eligible(r) == r.ok /\ r.w >= min_width /\ 10 * r.w >= 12 * r.h

EligibleIdx == {k \in 1..Len(examined) : Eligible(examined[k])}

ScoreAt(k) == ScoreTable[examined[k]]

\* infer_ext of each URL text with each response, tabulated
ExtTable ==
  [s \in {UrlStr(u) : u \in 1..8}, r \in Responses |-> infer_ext(s, r.ct)]
    @@ <<>>

ExtAt(k) == ExtTable[UrlStr(ordered[k]), examined[k]]

\* what Best-So-Far holds when the k-th candidate of the list is stored
EntryAt(k) == <<ScoreAt(k), examined[k].data, ExtAt(k)>>

ScanEnded == pc \in {"return", "done"} /\ stop # "no"

\* C1: Best-So-Far and the returned image are always those of an eligible
\* candidate of the list: never of one whose probe failed, that is narrower
\* than min_width, or whose ratio is below 1.2.
C1_BestIsEligible ==
  /\ best # None =>
       \E k \in EligibleIdx : examined[k].data = best[2] /\ best = EntryAt(k)
  /\ (pc = "done" /\ result[1] # None) =>
       \E k \in EligibleIdx :
         /\ examined[k].data = result[1]
         /\ result[2] = ExtAt(k)

\* an image is returned although a failed probe and a too narrow image that
\* would have scored lower were examined
C1_Witness ==
  /\ pc = "done"
  /\ result[1] # None
  /\ \E k \in 1..Len(examined) : ~examined[k].ok
  /\ \E k \in 1..Len(examined) :
       /\ examined[k].ok
       /\ examined[k].w < min_width
       /\ FLess(ScoreAt(k), best[1])

\* C2: Best-So-Far is the candidate of least score among the eligible ones
\* examined so far, the first of them in list order when several have that
\* score; when the list is exhausted every candidate was examined.
C2_BestIsFirstMinimum ==
  /\ IF EligibleIdx = {} THEN best = None
     ELSE LET at    == {k \in EligibleIdx :
                          \A j \in EligibleIdx : ~FLess(ScoreAt(j), ScoreAt(k))}
              first == CHOOSE k \in at : \A j \in at : k <= j
          IN  best = EntryAt(first)
  /\ stop = "exhausted" => Len(examined) = Len(ordered)

\* the list is exhausted, two different eligible images share the least
\* score, and the first of the two is the best
C2_Witness ==
  /\ pc = "done"
  /\ stop = "exhausted"
  /\ \E j, k \in EligibleIdx :
       /\ j < k
       /\ ScoreAt(j) = best[1]
       /\ ScoreAt(k) = best[1]
       /\ examined[j].data # examined[k].data
       /\ result[1] = examined[j].data
  /\ \E k \in EligibleIdx : FLess(best[1], ScoreAt(k))

\* after the first p candidates, at least MIN_VALID were eligible and the
\* least score among them is below the threshold
GoodEnoughAfter(p) ==
  LET E == {k \in EligibleIdx : k <= p}
  IN  Cardinality(E) >= MIN_VALID /\ \E k \in E : FLess(ScoreAt(k), GOOD_ENOUGH)

\* C3: once Best-So-Far is below the threshold with at least MIN_VALID
\* eligible candidates examined, no further candidate is probed: when this
\* holds of the candidates probed so far the loop has stopped there, and it
\* never held before the last probe that was made.
C3_EarlyExit ==
  /\ probes = Len(examined)
  /\ GoodEnoughAfter(probes) => pc \in {"return", "done"}
  /\ probes > 0 => ~GoodEnoughAfter(probes - 1)

\* the loop stopped early, before the end of the list
C3_Witness ==
  /\ pc = "done"
  /\ stop = "break_early"
  /\ GoodEnoughAfter(probes)
  /\ probes < Len(ordered)
  /\ \E k \in 1..Len(examined) : ~Eligible(examined[k])

\* C4: the number of calls of fetch_image_and_dims never exceeds the hard
\* cap, whatever the list and the responses.
C4_ProbesWithinCap == probes <= HARD_CAP

\* the candidates whose probe did not raise, in list order
KeptIdx ==
  SelectSeq([k \in 1..Len(examined) |-> k], LAMBDA k : examined[k].ok)

\* C5: a probe that raises does not end the scan, and the scan ends as it
\* would on the list without the candidates whose probe raised: same
\* Best-So-Far, same way of stopping, same returned value; an eligible
\* candidate after failed ones yields a result.  (No exception leaves the
\* function once the scan has probed a candidate.)
C5_FailuresAreSkipped ==
  /\ pc = "raised" => probes = 0
  /\ stop \in Breaks => examined[Len(examined)].ok
  /\ ScanEnded =>
       LET f == scan_loop([n \in 1..Len(KeptIdx) |-> ordered[KeptIdx[n]]],
                          [n \in 1..Len(KeptIdx) |-> examined[KeptIdx[n]]])
       IN  /\ f.used = Len(KeptIdx)
           /\ f.st.best = best
           /\ (f.st.ctl \in Breaks) = (stop \in Breaks)
           /\ stop \in Breaks => f.st.ctl = stop
           /\ pc = "done" => result = ReturnValue(f.st.best)
           /\ EligibleIdx # {} => ReturnValue(f.st.best)[1] # None

\* the first two probes raised and a later eligible candidate is returned
C5_Witness ==
  /\ pc = "done"
  /\ Len(examined) >= 3
  /\ ~examined[1].ok
  /\ ~examined[2].ok
  /\ \E k \in EligibleIdx : result[1] = examined[k].data

\* C6: the function returns an image and its extension exactly when some
\* candidate was eligible, and <<None, None>> otherwise; it never raises,
\* and nothing is returned before the end.
C6_ResultIffEligible ==
  /\ pc # "raised"
  /\ pc # "done" => result = None
  /\ pc = "done" =>
       /\ Len(result) = 2
       /\ (result[1] # None) = (EligibleIdx # {})
       /\ result[1] = None => result = <<None, None>>
       /\ result[1] # None => result[2] # None

Elems(q) == {q[k] : k \in 1..Len(q)}

\* the position of the first occurrence of u in q
FirstIdx(q, u) == CHOOSE a \in 1..Len(q) : q[a] = u /\ \A b \in 1..(a - 1) : q[b] # u

DedupStarted == pc = "scan" /\ i = 0

\* C7: the ordered list holds every URL of the concatenated adapter outputs
\* exactly once, holds no other URL, and lists the URLs in the order of
\* their first occurrence in the concatenation.
C7_DedupKeepsFirst ==
  DedupStarted =>
    /\ Elems(ordered) = Elems(probe)
    /\ \A a, b \in 1..Len(ordered) : a # b => ordered[a] # ordered[b]
    /\ \A a, b \in 1..Len(ordered) :
         a < b => FirstIdx(probe, ordered[a]) < FirstIdx(probe, ordered[b])

\* a URL came again after other URLs and was dropped where it came again
C7_Witness ==
  /\ DedupStarted
  /\ Len(ordered) < Len(probe)
  /\ \E a, b, c \in 1..Len(probe) :
       /\ a < b
       /\ b < c
       /\ probe[a] = probe[c]
       /\ probe[b] # probe[a]
       /\ \E x, y \in 1..Len(ordered) :
            x < y /\ ordered[x] = probe[a] /\ ordered[y] = probe[b]

CanonicalExts == {EXT_JPG, EXT_PNG, EXT_WEBP}

\* C8: infer_ext returns one of .jpg, .png, .webp for every URL and every
\* content-type.
C8_ExtIsCanonical == pc = "ext_done" => ext_out \in CanonicalExts

\* the content-type names png, webp or jpeg
CtNames(ct) ==
  \/ Contains(Lower(ct), S_png)
  \/ Contains(Lower(ct), S_webp)
  \/ Contains(Lower(ct), S_jpeg)

\* the token that ext names occurs in the content-type
NamedIn(ext, ct) ==
  \/ ext = EXT_PNG /\ Contains(Lower(ct), S_png)
  \/ ext = EXT_WEBP /\ Contains(Lower(ct), S_webp)
  \/ ext = EXT_JPG /\ Contains(Lower(ct), S_jpeg)

\* the URL ends its path with a recognised extension token: a dot, the
\* token, then the end of the URL or its query string
HasUrlToken(url) == MatchPositions(url) # {}

\* C9: a content-type that names png, webp or jpeg decides the extension
\* alone, whatever the URL; the URL's extension token is used only when the
\* content-type is absent or names none of them; when neither tells, the
\* extension is that of jpeg.
C9_ContentTypeFirst ==
  pc = "ext_done" =>
    /\ CtNames(ext_ct) =>
         /\ NamedIn(ext_out, ext_ct)
         /\ \A u \in UrlStrings : infer_ext(u, ext_ct) = ext_out
    /\ (\E u \in UrlStrings : infer_ext(u, ext_ct) # ext_out) =>
         ~CtNames(ext_ct)
    /\ (~CtNames(ext_ct) /\ ~Contains(Lower(ext_ct), S_jpg)) =>
         IF HasUrlToken(ext_url)
         THEN ext_out = <<".">> \o SearchExtToken(ext_url)
         ELSE ext_out = EXT_JPG

\* the content-type names one type and the URL ends in another
C9_Witness ==
  /\ pc = "ext_done"
  /\ CtNames(ext_ct)
  /\ HasUrlToken(ext_url)
  /\ ext_out # <<".">> \o SearchExtToken(ext_url)
  /\ <<".">> \o SearchExtToken(ext_url) \in CanonicalExts


AdapterNames == <<"movie_db", "free_apis", "google", "ddg", "bing">>

\* the limit on len(probe) under which each adapter is called
AdapterLimit ==
  "free_apis" :> FREE_API_LIMIT @@ "google" :> GOOGLE_LIMIT @@
  "ddg" :> DDG_LIMIT @@ "bing" :> BING_LIMIT

\* the adapters whose turn has passed
Stage ==
  IF pc = "movie_db" THEN 0
  ELSE IF pc = "free_apis" THEN 1
  ELSE IF pc = "google" THEN 2
  ELSE IF pc = "ddg" THEN 3
  ELSE IF pc = "bing" THEN 4
  ELSE 5

AdapterPhase ==
  pc \in {"movie_db", "free_apis", "google", "ddg", "bing", "dedup"}
  \/ DedupStarted

QueriedNames == {queried[k].name : k \in 1..Len(queried)}

AdapterIdx(name) == CHOOSE a \in 1..5 : AdapterNames[a] = name

RECURSIVE CountUpTo(_)
CountUpTo(k) == IF k = 0 THEN 0 ELSE queried[k].count + CountUpTo(k - 1)

\* the URLs returned by the adapters called before adapter number a
CountBefore(a) ==
  CountUpTo(Cardinality({k \in 1..Len(queried) :
                           AdapterIdx(queried[k].name) < a}))

\* C10: no exception leaves an adapter: fetch_best_landscape_any, which
\* calls the adapters without a try, is never left by an exception of one
\* of them, whatever fails inside the adapter.
C10_NoExceptionLeavesAnAdapter == pc # "raised"

\* C10, the part on the empty list: an adapter in which a request failed
\* contributes an empty list.
C10_FaultyContributesNothing ==
  AdapterPhase =>
    \A k \in 1..Len(queried) : queried[k].name \in faulty => queried[k].count = 0

\* What holds of the adapters' failures: the only exception that leaves an
\* adapter is that of quote in google_image_search_any, on a title it
\* cannot encode; a failing request is skipped and the adapter returns what
\* its other requests collected (try_movie_databases at least its three
\* direct URLs); every later adapter is called exactly when len(probe) is
\* under its limit, failure or not; and the scan starts over all the URLs
\* that the adapters returned.
C10_RequestFaultsAreContained ==
  /\ pc = "raised" =>
       /\ quote(title).raised
       /\ queried[Len(queried)].name = "google"
  /\ (AdapterPhase /\ pc # "raised") =>
       /\ faulty \subseteq QueriedNames
       /\ Len(probe) = CountUpTo(Len(queried))
       /\ Stage >= 1 =>
            /\ queried[1].name = "movie_db"
            /\ queried[1].count >= Len(DirectUrls)
            /\ SubSeq(probe, queried[1].count - 2, queried[1].count) = DirectUrls
       /\ \A a \in 2..5 :
            a <= Stage =>
              ((AdapterNames[a] \in QueriedNames)
                 = (CountBefore(a) < AdapterLimit[AdapterNames[a]]))
  /\ DedupStarted => (Len(ordered) > 0 /\ Elems(ordered) = Elems(probe))


\* the number of different URLs returned by the adapters called before
\* adapter number a
UniqueBefore(a) == Cardinality(Elems(SubSeq(probe, 1, CountBefore(a))))

\* C14: the adapters are called in the order movie databases, free image
\* APIs, Google, DuckDuckGo, Bing, and each adapter after the first is
\* called exactly when the number of different URLs collected so far is
\* under its threshold; repeated URLs do not count.
C14_UniqueCountThresholds ==
  AdapterPhase =>
    /\ \A j, k \in 1..Len(queried) :
         j < k => AdapterIdx(queried[j].name) < AdapterIdx(queried[k].name)
    /\ \A a \in 2..5 :
         a <= Stage =>
           ((AdapterNames[a] \in QueriedNames)
              = (UniqueBefore(a) < AdapterLimit[AdapterNames[a]]))


\* C15: once set, Best-So-Far is never cleared, and every step either
\* replaces it by an entry of strictly lower score or leaves score, bytes
\* and extension as they are.
C15_BestIsMonotone ==
  [][best # None =>
       /\ best' # None
       /\ (FLess(best'[1], best[1]) \/ best' = best)]_vars

\* the best was replaced by a better candidate and kept when a worse one
\* came after it
C15_Witness ==
  /\ pc = "done"
  /\ \E j, k, m \in EligibleIdx :
       /\ j < k
       /\ k < m
       /\ FLess(ScoreAt(k), ScoreAt(j))
       /\ FLess(ScoreAt(k), ScoreAt(m))
       /\ best = EntryAt(k)


\* the score of an image whose colour distance is the fixed penalty
PenaltyScore(r) ==
  FSub(FSub(FAdd(FDiv(FOfInt(COLOR_FAIL_DE), FOfInt(80)),
                 AspectPenalty(r.w, r.h)),
            SizeBonus(r.w)),
       WidthBonus(r.w))

PenaltyTable == [r \in Responses |-> PenaltyScore(r)] @@ <<>>

\* the eligible candidates whose average colour could not be computed
ColorFailedIdx == {k \in EligibleIdx : ~examined[k].color_ok}

\* C16: a candidate whose colour computation fails is scored with the fixed
\* penalty as its colour distance and with its own aspect and size terms;
\* it counts as a valid candidate, it is Best-So-Far when no other eligible
\* candidate scores as low, and the loop goes on to the next candidate
\* unless one of its two breaks applies; no exception leaves the function
\* once the scan has probed a candidate.
C16_ColorFailureIsScored ==
  /\ pc = "raised" => probes = 0
  /\ valid_candidates = Cardinality(EligibleIdx)
  /\ \A k \in ColorFailedIdx :
       /\ best # None
       /\ ~FLess(PenaltyTable[examined[k]], best[1])
       /\ best[2] = examined[k].data => best[1] = PenaltyTable[examined[k]]
       /\ (\A j \in EligibleIdx :
             j # k => FLess(PenaltyTable[examined[k]], ScoreAt(j))) =>
            best = <<PenaltyTable[examined[k]], examined[k].data, ExtAt(k)>>
       /\ (/\ k = Len(examined)
           /\ ~GoodEnoughAfter(k)
           /\ checked < HARD_CAP) => stop \notin Breaks

\* an image without a computable colour was scored, beat an image with one,
\* was not the last candidate probed, and is returned
C16_Witness ==
  /\ pc = "done"
  /\ \E k \in ColorFailedIdx :
       /\ result[1] = examined[k].data
       /\ k < Len(examined)
       /\ \E j \in EligibleIdx :
            examined[j].color_ok /\ FLess(best[1], ScoreAt(j))


\* the candidates whose image was fetched and decoded
FetchedIdx == {k \in 1..Len(examined) : examined[k].ok}

\* C19: the loop breaks only (a) with Best-So-Far under the threshold and
\* at least MIN_VALID eligible candidates examined, or (b) with HARD_CAP
\* images fetched; otherwise the candidates are probed one after the other
\* to the end of the list, and one eligible candidate alone does not end
\* the scan, whatever its score.
C19_TwoReasonsToStop ==
  /\ pc = "scan" => (stop = "no" /\ Len(examined) = i)
  /\ stop = "break_early" =>
       /\ best # None
       /\ FLess(best[1], GOOD_ENOUGH)
       /\ Cardinality(EligibleIdx) >= MIN_VALID
  /\ stop = "break_cap" => Cardinality(FetchedIdx) >= HARD_CAP
  /\ (pc \in {"return", "done"} /\ stop \notin Breaks /\ Len(ordered) > 0) =>
       (stop = "exhausted" /\ Len(examined) = Len(ordered))
  /\ (Cardinality(EligibleIdx) = 1 /\ Cardinality(FetchedIdx) < HARD_CAP) =>
       stop \notin Breaks

\* one eligible candidate with a score under the threshold was examined
\* and every candidate after it was probed
C19_Witness ==
  /\ pc = "done"
  /\ stop = "exhausted"
  /\ Cardinality(EligibleIdx) = 1
  /\ best # None
  /\ FLess(best[1], GOOD_ENOUGH)
  /\ \E k \in EligibleIdx : k + 2 <= Len(examined)

\* the loop stopped at the cap with candidates left
C19_CapReached ==
  /\ stop = "break_cap"
  /\ Len(examined) < Len(ordered)


\* C18: the width bonus is zero for every width up to the minimum landscape
\* width, and beyond that floor it rewards every additional pixel of width
\* (up to a cap).
C18_WidthBonusFromFloor ==
  pc = "score_done" =>
    /\ score_in.w <= MIN_LANDSCAPE_WIDTH => score_out.width_bonus = FZero
    /\ score_in.w > MIN_LANDSCAPE_WIDTH =>
         FLess(FZero, score_out.width_bonus)


\* main ran to its end or to an exit that is not the user's interrupt
EndedUninterrupted ==
  /\ mpc = "exited"
  /\ title # <<>>
  /\ "Cancelled." \notin printed
  /\ exit_status # EXIT_SIGINT

LandscapeFailures ==
  {"no landscape", "skipping landscape", "Failed to download", "not saved"}

\* C11: in both programs a failure of the poster half does not keep main
\* from the landscape half, a failure of the landscape half leaves a saved
\* poster in place, a run with a title that is not interrupted and whose
\* prompts are all answered ends with "Done." and status 0 whichever halves
\* failed, and a half that failed leaves no file.
C11_HalvesAreIndependent ==
  /\ (EndedUninterrupted /\ ~user.eof) =>
       /\ exit_status = 0
       /\ "Done." \in printed
       /\ printed \cap (LandscapeFailures \cup {"Saved landscape"}) # {}
  /\ "Saved poster" \in printed => files.poster = "complete"
  /\ "no poster" \in printed => files.poster = "absent"
  /\ printed \cap LandscapeFailures # {} => files.land = "absent"

\* C12: every run of main of posters.py with a title that reaches its end
\* has called fetch_best_landscape_any, also when no landscape URL was
\* typed.
C12_LandscapeSearchAlwaysRuns ==
  (script = "posters" /\ EndedUninterrupted) =>
    \E k \in 1..Len(called) : called[k] = "fetch_best_landscape_any"

\* the URLs of the list probed by fetch_landscape_paramount whose image is
\* wide enough and landscape
LandQualifying ==
  {k \in 1..Len(land_ret.ordered) :
     LET r == LandServe(net.kinds[land_ret.ordered[k].id], land_ret.ordered[k])
     IN  r.ok /\ r.w >= SCRIPT_MIN_WIDTH /\ r.w > r.h}

\* the hi-res variants whose image is tall enough and portrait
PosterQualifying ==
  {k \in 1..Len(net.poster_resp) :
     LET r == net.poster_resp[k]
     IN  r.ok /\ r.h >= SCRIPT_MIN_HEIGHT /\ r.h > r.w}

HasCalled(f) == \E k \in 1..Len(called) : called[k] = f

\* the landscape half of C13
LandscapeIsFirstQualifying ==
  (script = "script" /\ HasCalled("fetch_landscape_paramount")) =>
    /\ \A a, b \in 1..Len(land_ret.ordered) :
         a # b => land_ret.ordered[a] # land_ret.ordered[b]
    /\ IF LandQualifying = {}
       THEN /\ land_ret.value = <<None, None>>
            /\ land_ret.probed = Len(land_ret.ordered)
       ELSE LET k == CHOOSE a \in LandQualifying :
                       \A b \in LandQualifying : a <= b
                u == land_ret.ordered[k]
            IN  /\ land_ret.value[1] = LandServe(net.kinds[u.id], u).data
                /\ land_ret.probed = k

\* the poster half of C13
PosterIsFirstQualifying ==
  (script = "script" /\ HasCalled("fetch_poster_imdb")) =>
    /\ "Traceback" \in printed => exit_status = EXIT_SIGINT
    /\ LET found == /\ \/ user.imdb_url # None
                       \/ ~net.imdb.raised /\ net.imdb.value # None
                    /\ PosterQualifying # {}
       IN  IF ~found THEN poster_ret[1] = None
           ELSE LET k == CHOOSE a \in PosterQualifying :
                           \A b \in PosterQualifying : a <= b
                IN  poster_ret[1] = net.poster_resp[k].data

\* C13: in script.py fetch_landscape_paramount returns the image of the
\* first URL of the de-duplicated list that is at least min_width wide and
\* landscape, fetch_poster_imdb that of the first hi-res variant that is at
\* least min_height tall and portrait; failed probes are skipped and
\* (None, None) is returned exactly when no probed URL qualifies.
C13_FirstQualifyingIsReturned ==
  /\ LandscapeIsFirstQualifying
  /\ PosterIsFirstQualifying

\* the process has ended after the user pressed Ctrl-C
EndedInterrupted == mpc = "exited" /\ user.ctrl_c

\* once the user has pressed Ctrl-C main has been left: the process is in
\* the handler or has ended
InterruptLeavesMain ==
  (mpc # "idle" /\ user.ctrl_c) => mpc \in HandlerPositions \cup {"exited"}

\* a process that ends after Ctrl-C ends with status 130
InterruptedExitIs130 == EndedInterrupted => exit_status = EXIT_INTERRUPTED

\* a process that ends after Ctrl-C leaves no output file empty or partly
\* written
InterruptLeavesNoEmptyFile ==
  EndedInterrupted => files.poster # "empty" /\ files.land # "empty"

\* C17: once the user has pressed Ctrl-C main does nothing more (no probe,
\* no saving: the process is in its handler or has ended), the process ends
\* with status 130, and no output file is left empty or partly written.
C17_InterruptAbortsCleanly ==
  /\ InterruptLeavesMain
  /\ InterruptedExitIs130
  /\ InterruptLeavesNoEmptyFile

====
